---- MODULE Spec2Model ----
(***************************************************************************)
(* Daily Playbook Creator (src/dco_creator.py): time primitives, the zone  *)
(* slot resolver and the ADP grid row classifier, as state machines.       *)
(*                                                                         *)
(* Representation.  A Python tuple (hour, minute) is the TLA+ tuple        *)
(* <<hour, minute>>; Python's None is the empty tuple <<>> (both are       *)
(* falsy, every (hour, minute) pair is truthy).  A text is a sequence of   *)
(* one-character strings, so that the regular expressions of the source    *)
(* are matched character by character.  A zone name is a TLA+ string.      *)
(***************************************************************************)
EXTENDS Integers, Sequences, FiniteSets, TLC

VARIABLES
    \* ---- zone assignment and the slot resolver ----
    emp,            \* the employee dict handed to _get_zone_for_slot
    slot,           \* (slot_h, slot_m) of the last resolved slot, or None
    slot_zone,      \* what _get_zone_for_slot returned for it
    \* ---- time primitives ----
    text,           \* the cell text handed to parse_time_range
    tr,             \* its result: None or <<start, end>>
    tpoint,         \* the (hour, minute) handed to format_time_short
    label,          \* the compact label format_time_short returned
    reparsed,       \* what _parse_compact_time made of that label
    window,         \* (start_hour, end_hour) handed to generate_time_slots
    time_slots,     \* the list it returned
    tpc,            \* position of the time-primitive call: "call" / "mid" / "ret"
    \* ---- parse_adp_report ----
    grid,             \* the cell values of the sheet, row by row
    r,                \* the row index of the main loop (0-based)
    current_dept,     \* current_dept
    day_columns,      \* day_columns: col_index -> [abbrev, date]
    current_employee, \* index into employees of the dict current_employee
                      \* refers to; 0 for None
    employees,        \* result["employees"]
    days,             \* result["days"]
    time_period,      \* result["time_period"]
    cpc,              \* position in parse_adp_report: "period" / "loop" / "done",
                      \* then "projected" / "projected2" after extract_day_schedule
    \* ---- extract_day_schedule ----
    target_col,       \* target_col of the last call, -1 before any call
    schedule,         \* the list the first call returned
    schedule2,        \* the list a second call for the same day returned
    \* ---- generate_excel ----
    roster,           \* employees: the day's employee list handed to it
    zones,            \* zones: the configured zone definitions
    axis_window,      \* (start_hour, end_hour) after widening, None before
    axis,             \* time_slots
    sheet_rows,       \* the employee rows written so far
    rpc,              \* position in generate_excel: "start" / "rows" / "saved"
    \* ---- the zone list of DCOCreatorApp ----
    self_zones,       \* self.zones: the configured zone definitions
    zone_ops,         \* how many Add / Edit / Delete Zone operations were made
    \* ---- SplitZoneDialog ----
    dlg_emp,             \* the employee dict _open_split_zones works on
    dlg_blocks,          \* self.blocks
    dlg_original,        \* self.original_blocks
    current_block_index, \* self.current_block_index (0-based)
    phase,               \* "closed" / "phase1" / "phase2": the frame shown
    dlg_result           \* self.result: None or the list _done built

zoneVars == <<emp, slot, slot_zone>>
timeVars == <<text, tr, tpoint, label, reparsed, window, time_slots, tpc>>
parseVars == <<grid, r, current_dept, day_columns, current_employee, employees,
               days, time_period, cpc>>
projVars == <<target_col, schedule, schedule2>>
renderVars == <<roster, zones, axis_window, axis, sheet_rows, rpc>>
configVars == <<self_zones, zone_ops>>
splitVars == <<dlg_emp, dlg_blocks, dlg_original, current_block_index, phase,
               dlg_result>>
vars == <<zoneVars, timeVars, parseVars, projVars, renderVars, configVars,
          splitVars>>

None == <<>>
Truthy(x) == x # None

\* The values a component's variables hold in the specifications of the others.
ZoneIdle == emp = None /\ slot = None /\ slot_zone = ""
TimeIdle ==
    /\ text = None /\ tr = None /\ tpoint = None /\ label = None
    /\ reparsed = None /\ window = None /\ time_slots = <<>> /\ tpc = "off"
ParseIdle ==
    /\ grid = <<>> /\ r = 0 /\ current_dept = <<>> /\ day_columns = <<>>
    /\ current_employee = 0 /\ employees = <<>> /\ days = <<>>
    /\ time_period = <<>> /\ cpc = "off"
ProjIdle == target_col = -1 /\ schedule = <<>> /\ schedule2 = <<>>
RenderIdle ==
    /\ roster = <<>> /\ zones = <<>> /\ axis_window = None /\ axis = <<>>
    /\ sheet_rows = <<>> /\ rpc = "off"
ConfigIdle == self_zones = <<>> /\ zone_ops = 0
SplitIdle ==
    /\ dlg_emp = None /\ dlg_blocks = <<>> /\ dlg_original = <<>>
    /\ current_block_index = 0 /\ phase = "off" /\ dlg_result = None

\* ---------------------------------------------------------------- bounds

\* Default first hour of the rendered axis (generate_excel's start_hour).
BaseHour == 9
\* generate_excel's default end_hour.
DefaultEndHour == 21
\* The modelled day spans the hours BaseHour .. BaseHour + MaxSpan.
MaxSpan == 2
\* SplitZoneDialog sessions are followed up to this many blocks.
MaxBlocks == 3
\* generate_time_slots is called with hours 0 .. MaxAxisHour.
MaxAxisHour == 6
\* Cell texts are written with hour numerals 0 .. MaxHourText.
MaxHourText == 13
\* A sheet has up to MaxBodyRows rows below its leading rows.
MaxBodyRows == 3
\* The most employees of a rendered day.
MaxRoster == 2
\* The longest TimeRange list of one day of one employee in a projected model.
MaxSegs == 2
\* The most employees of a projected model.
MaxEmployees == 2

\* Two of the DEFAULT_ZONES names.
ZoneNames == {"Adults", "Cashiers"}

\* ---------------------------------------------------------------- helpers

Last(s) == s[Len(s)]

\* h * 60 + m, as computed inline throughout the source.
Minutes(t) == t[1] * 60 + t[2]

SetMax(S) == CHOOSE x \in S : \A y \in S : y <= x
SetMin(S) == CHOOSE x \in S : \A y \in S : x <= y

\* ------------------------------------------------------ generate_time_slots

RECURSIVE slots_loop_incl30(_, _, _, _)
slots_loop_incl30(h, m, end_hour, slots) ==
    IF h <= end_hour
    THEN IF m + 30 >= 60
         THEN slots_loop_incl30(h + 1, 0, end_hour, Append(slots, <<h, m>>))
         ELSE slots_loop_incl30(h, m + 30, end_hour, Append(slots, <<h, m>>))
    ELSE slots

\* The while loop of generate_time_slots, from (h, m) on.
RECURSIVE slots_loop(_, _, _, _)
slots_loop(h, m, end_hour, slots) ==
    IF h < end_hour \/ (h = end_hour /\ m = 0)
    THEN IF m + 30 >= 60
         THEN slots_loop(h + 1, 0, end_hour, Append(slots, <<h, m>>))
         ELSE slots_loop(h, m + 30, end_hour, Append(slots, <<h, m>>))
    ELSE slots

generate_time_slots(start_hour, end_hour) ==
    slots_loop(start_hour, 0, end_hour, <<>>)

\* ------------------------------------------------------ _get_zone_for_slot

RECURSIVE direct_hit_closed(_, _)
direct_hit_closed(zone_segs, slot_min) ==
    IF zone_segs = <<>> THEN None
    ELSE IF Minutes(Head(zone_segs).start) <= slot_min
            /\ slot_min <= Minutes(Head(zone_segs).end)
         THEN <<Head(zone_segs).zone>>
         ELSE direct_hit_closed(Tail(zone_segs), slot_min)

\* for seg in zone_segs: if seg_start <= slot_min < seg_end: return seg["zone"]
\* (None when the loop falls through).
RECURSIVE direct_hit(_, _)
direct_hit(zone_segs, slot_min) ==
    IF zone_segs = <<>> THEN None
    ELSE IF Minutes(Head(zone_segs).start) <= slot_min
            /\ slot_min < Minutes(Head(zone_segs).end)
         THEN <<Head(zone_segs).zone>>
         ELSE direct_hit(Tail(zone_segs), slot_min)

RECURSIVE best_following(_, _, _)
best_following(zone_segs, slot_min, best) ==
    IF zone_segs = <<>> THEN best
    ELSE best_following(
             Tail(zone_segs), slot_min,
             IF Minutes(Head(zone_segs).start) >= slot_min /\ best = ""
             THEN Head(zone_segs).zone ELSE best)

\* best = None; for seg in zone_segs: if seg_end <= slot_min: best = seg["zone"]
\* (None and "" are both falsy at `if best:`; best starts as "").
RECURSIVE best_preceding(_, _, _)
best_preceding(zone_segs, slot_min, best) ==
    IF zone_segs = <<>> THEN best
    ELSE best_preceding(
             Tail(zone_segs), slot_min,
             IF Minutes(Head(zone_segs).end) <= slot_min
             THEN Head(zone_segs).zone ELSE best)

\* start_min <= slot_min < end_min over the overall shift range, guarded by
\* `if shift_start and shift_end`.
in_shift_range(e, slot_min) ==
    /\ Truthy(e.shift_start) /\ Truthy(e.shift_end)
    /\ Minutes(e.shift_start) <= slot_min
    /\ slot_min < Minutes(e.shift_end)

gap_zone_unranged(e, slot_min) ==
    best_preceding(e.zone_segments, slot_min, "")

\* The multi-zone branch after the direct scan found nothing.
gap_zone(e, slot_min) ==
    IF in_shift_range(e, slot_min)
    THEN best_preceding(e.zone_segments, slot_min, "")
    ELSE ""

get_zone_skipping_breaks(e, slot_h, slot_m) ==
    LET slot_min == slot_h * 60 + slot_m
        zone_segs == e.zone_segments
    IN  IF zone_segs # <<>>
        THEN LET hit == direct_hit(zone_segs, slot_min)
             IN  IF hit # None THEN hit[1] ELSE gap_zone(e, slot_min)
        ELSE IF \E i \in 1..Len(e.shift_segments) :
                    /\ Minutes(e.shift_segments[i][1]) <= slot_min
                    /\ slot_min < Minutes(e.shift_segments[i][2])
             THEN e.zone ELSE ""

get_zone_for_slot(e, slot_h, slot_m) ==
    LET slot_min == slot_h * 60 + slot_m
        zone_segs == e.zone_segments
    IN  IF zone_segs # <<>>
        THEN LET hit == direct_hit(zone_segs, slot_min)
             IN  IF hit # None THEN hit[1] ELSE gap_zone(e, slot_min)
        ELSE IF in_shift_range(e, slot_min) THEN e.zone ELSE ""

\* ------------------------------------------------- employees and zone edits

\* The dict extract_day_schedule appends for one employee with the day's
\* (sorted) segments.
projected_employee(segments) ==
    [shift_segments |-> segments,
     shift_start    |-> segments[1][1],
     shift_end      |-> Last(segments)[2],
     zone           |-> "",
     zone_segments  |-> <<>>]

\* The dict EmployeeEditDialog._ok builds for a manual entry whose shift text
\* holds no parseable segment.
manual_employee_no_shift(zone_name) ==
    [shift_segments |-> <<>>,
     shift_start    |-> None,
     shift_end      |-> None,
     zone           |-> zone_name,
     zone_segments  |-> <<>>]

\* An _assign_zone that sets the zone and leaves zone_segments alone.
assign_zone_keep(e, zone_name) == [e EXCEPT !.zone = zone_name]

\* ZoneAssignmentDialog._assign_zone / _clear_zone (zone_name = "").
assign_zone(e, zone_name) ==
    [e EXCEPT !.zone = zone_name, !.zone_segments = <<>>]

\* SplitZoneDialog.__init__: original_blocks.
original_blocks(e) ==
    [i \in 1..Len(e.shift_segments) |->
        [start |-> e.shift_segments[i][1],
         end   |-> e.shift_segments[i][2],
         zone  |-> ""]]

\* SplitZoneDialog.__init__: blocks, pre-populated from zone_segments if any.
initial_blocks(e) ==
    IF e.zone_segments # <<>>
    THEN [i \in 1..Len(e.zone_segments) |->
             [start |-> e.zone_segments[i].start,
              end   |-> e.zone_segments[i].end,
              zone  |-> e.zone_segments[i].zone]]
    ELSE original_blocks(e)

\* The values the snapped slider can hold (_on_slider_change): multiples of
\* 30 clamped to [_slider_start + 30, _slider_end - 30].
slider_values(e) ==
    IF e.shift_segments = <<>> THEN {}
    ELSE LET lo == Minutes(e.shift_segments[1][1])
             hi == Minutes(Last(e.shift_segments)[2])
             clamp(x) == IF (IF x < hi - 30 THEN x ELSE hi - 30) > lo + 30
                         THEN (IF x < hi - 30 THEN x ELSE hi - 30)
                         ELSE lo + 30
         IN  {clamp(x) : x \in {y \in lo..hi : y % 30 = 0}}

\* SplitZoneDialog._add_split on the block list.
add_split(blocks, split_min) ==
    LET split_time == <<split_min \div 60, split_min % 60>>
        inside == {i \in 1..Len(blocks) :
                      /\ Minutes(blocks[i].start) < split_min
                      /\ split_min < Minutes(blocks[i].end)}
    IN  IF \E i \in 1..Len(blocks) :
               blocks[i].start = split_time \/ blocks[i].end = split_time
        THEN blocks
        ELSE IF inside = {} THEN blocks
        ELSE LET i == SetMin(inside)
                 blk == blocks[i]
             IN  SubSeq(blocks, 1, i - 1)
                 \o <<[start |-> blk.start, end |-> split_time, zone |-> blk.zone],
                      [start |-> split_time, end |-> blk.end, zone |-> ""]>>
                 \o SubSeq(blocks, i + 1, Len(blocks))

\* A _remove_last_split that pops the last block and leaves the end of the
\* block before it where it was.
remove_last_drop(blocks, original) ==
    IF Len(blocks) <= Len(original) THEN blocks
    ELSE SubSeq(blocks, 1, Len(blocks) - 1)

\* SplitZoneDialog._remove_last_split on the block list.
remove_last_split(blocks, original) ==
    IF Len(blocks) <= Len(original) THEN blocks
    ELSE LET n == Len(blocks) - 1
         IN  [i \in 1..n |->
                 IF i = n THEN [blocks[i] EXCEPT !.end = Last(blocks).end]
                 ELSE blocks[i]]

\* SplitZoneDialog._remove_all_splits on the block list.
remove_all_splits(original) ==
    [i \in 1..Len(original) |-> [original[i] EXCEPT !.zone = ""]]

\* SplitZoneDialog._done: the result list, once every block carries a zone.
split_result(blocks) ==
    [i \in 1..Len(blocks) |->
        [zone |-> blocks[i].zone, start |-> blocks[i].start, end |-> blocks[i].end]]

\* zone_names of _open_split_zones: the distinct zones in order of first use.
RECURSIVE zone_names_of(_, _)
zone_names_of(result, seen) ==
    IF result = <<>> THEN seen
    ELSE zone_names_of(
             Tail(result),
             IF \E k \in 1..Len(seen) : seen[k] = Head(result).zone
             THEN seen ELSE Append(seen, Head(result).zone))

\* " / ".join(zone_names)
RECURSIVE join_names(_)
join_names(names) ==
    IF names = <<>> THEN ""
    ELSE IF Len(names) = 1 THEN names[1]
    ELSE names[1] \o " / " \o join_names(Tail(names))

\* ZoneAssignmentDialog._open_split_zones with a dialog result that is not None.
apply_split_result(e, result) ==
    [e EXCEPT !.zone_segments = result,
              !.zone = join_names(zone_names_of(result, <<>>))]

\* ------------------------------------------------------------- SpecZone

\* The half-hour points of the modelled day.
AxisSlots == generate_time_slots(BaseHour, BaseHour + MaxSpan)
AxisPoints == {AxisSlots[i] : i \in 1..Len(AxisSlots)}

\* One shift segment: start before end.
ShiftRanges ==
    {rng \in AxisPoints \X AxisPoints : Minutes(rng[1]) < Minutes(rng[2])}

\* A day's segment list as extract_day_schedule leaves it: sorted by start;
\* one segment, or two with a (possibly empty) break between them.
ShiftSegLists ==
    {<<rng>> : rng \in ShiftRanges}
    \cup {p \in ShiftRanges \X ShiftRanges : Minutes(p[1][2]) <= Minutes(p[2][1])}

\* The edits one SplitZoneDialog session makes in phase 1.
DialogEdits(e) ==
    {<<"keep", 0>>, <<"remove_last", 0>>, <<"remove_all", 0>>}
    \cup {<<"add", t>> : t \in slider_values(e)}

EditedBlocks(e, edit) ==
    CASE edit[1] = "keep"        -> initial_blocks(e)
      [] edit[1] = "add"         -> add_split(initial_blocks(e), edit[2])
      [] edit[1] = "remove_last" -> remove_last_split(initial_blocks(e), original_blocks(e))
      [] edit[1] = "remove_all"  -> remove_all_splits(original_blocks(e))

InitZone ==
    /\ \/ \E segments \in ShiftSegLists : emp = projected_employee(segments)
       \/ \E z \in ZoneNames \cup {""} : emp = manual_employee_no_shift(z)
    /\ slot = None
    /\ slot_zone = ""
    /\ TimeIdle /\ ParseIdle /\ ProjIdle /\ RenderIdle /\ ConfigIdle /\ SplitIdle

\* ZoneAssignmentDialog: a zone button or number key.  (Dialogs are modal and
\* rendering is synchronous: no edit happens while a grid is being rendered.)
AssignZone ==
    /\ slot = None
    /\ \E z \in ZoneNames : emp' = assign_zone(emp, z)
    /\ UNCHANGED <<slot, slot_zone>>
    /\ UNCHANGED <<timeVars, parseVars, projVars, renderVars, configVars, splitVars>>

\* ZoneAssignmentDialog: Clear Zone.
ClearZone ==
    /\ slot = None
    /\ emp' = assign_zone(emp, "")
    /\ UNCHANGED <<slot, slot_zone>>
    /\ UNCHANGED <<timeVars, parseVars, projVars, renderVars, configVars, splitVars>>

\* ZoneAssignmentDialog._open_split_zones: one modal SplitZoneDialog session
\* (one phase-1 edit, phase 2 entered with at least two blocks, every block
\* given a zone, Done), then the result stored on the employee.
OpenSplitZones ==
    /\ slot = None
    /\ \E edit \in DialogEdits(emp) :
         LET blocks == EditedBlocks(emp, edit)
         IN  /\ Len(blocks) >= 2
             /\ Len(blocks) <= MaxBlocks
             /\ \E zs \in [1..Len(blocks) -> ZoneNames] :
                  emp' = apply_split_result(
                             emp,
                             split_result([i \in 1..Len(blocks) |->
                                              [blocks[i] EXCEPT !.zone = zs[i]]]))
    /\ UNCHANGED <<slot, slot_zone>>
    /\ UNCHANGED <<timeVars, parseVars, projVars, renderVars, configVars, splitVars>>

\* generate_excel's inner loop body: slot_zone = _get_zone_for_slot(emp, h, m).
ResolveSlot ==
    /\ \E s \in AxisPoints :
         /\ slot' = s
         /\ slot_zone' = get_zone_for_slot(emp, s[1], s[2])
    /\ UNCHANGED emp
    /\ UNCHANGED <<timeVars, parseVars, projVars, renderVars, configVars, splitVars>>

\* generate_excel returns; the employee list can be edited again.
RenderDone ==
    /\ slot # None
    /\ slot' = None /\ slot_zone' = ""
    /\ UNCHANGED emp
    /\ UNCHANGED <<timeVars, parseVars, projVars, renderVars, configVars, splitVars>>

NextZone == AssignZone \/ ClearZone \/ OpenSplitZones \/ ResolveSlot \/ RenderDone

SpecZone == InitZone /\ [][NextZone]_vars

\* ------------------------------------------------- zone resolver: claims

Resolved == slot # None
SplitMode == emp.zone_segments # <<>>
SlotMin == slot[1] * 60 + slot[2]
SegStart(i) == emp.zone_segments[i].start[1] * 60 + emp.zone_segments[i].start[2]
SegEnd(i) == emp.zone_segments[i].end[1] * 60 + emp.zone_segments[i].end[2]
SegIndices == 1..Len(emp.zone_segments)
\* The zone segments whose half-open interval holds the resolved slot.
Covering == {i \in SegIndices : SegStart(i) <= SlotMin /\ SlotMin < SegEnd(i)}
\* The zone segments that ended at or before the resolved slot.
EndedBefore == {i \in SegIndices : SegEnd(i) <= SlotMin}
\* The resolved slot lies in the overall [shift_start, shift_end) range.
InOverallShift ==
    /\ emp.shift_start # None /\ emp.shift_end # None
    /\ emp.shift_start[1] * 60 + emp.shift_start[2] <= SlotMin
    /\ SlotMin < emp.shift_end[1] * 60 + emp.shift_end[2]

C2_SingleZoneWholeShift ==
    (Resolved /\ ~SplitMode)
        => slot_zone = (IF InOverallShift THEN emp.zone ELSE "")

\* A slot inside the break between two shift segments of a single-zone
\* employee, resolved to the employee's zone.
C2_Witness ==
    /\ Resolved /\ ~SplitMode
    /\ Len(emp.shift_segments) = 2
    /\ Minutes(emp.shift_segments[1][2]) <= SlotMin
    /\ SlotMin < Minutes(emp.shift_segments[2][1])
    /\ emp.zone \in ZoneNames
    /\ slot_zone = emp.zone

C4_SplitEmpty ==
    (Resolved /\ SplitMode /\ Covering = {}
        /\ (SlotMin < SegStart(1) \/ ~InOverallShift))
        => slot_zone = ""

\* A slot before the first zone segment, resolved to "".
C4_Witness ==
    /\ Resolved /\ SplitMode /\ Covering = {}
    /\ SlotMin < SegStart(1)
    /\ slot_zone = ""

\* ------------------------------------------------------------ characters

\* A character is a one-character string; the en dash (U+2013) of the
\* source's patterns is written "ndash".
DigitChars == <<"0", "1", "2", "3", "4", "5", "6", "7", "8", "9">>
IsDigit(c) == \E d \in 1..10 : DigitChars[d] = c
DigitVal(c) == (CHOOSE d \in 1..10 : DigitChars[d] = c) - 1
\* \s of the patterns, and what str.strip() removes.
IsSpace(c) == c \in {" ", "\t", "\n"}
\* str.upper() / re.IGNORECASE on the letters the texts use.
Upper(c) ==
    CASE c = "a" -> "A"
      [] c = "p" -> "P"
      [] c = "m" -> "M"
      [] c = "x" -> "X"
      [] OTHER   -> c

\* The character at index i (1-based), "" past the end.
At(s, i) == IF i >= 1 /\ i <= Len(s) THEN s[i] ELSE ""

\* int(digits)
RECURSIVE int_of(_)
int_of(ds) ==
    IF ds = <<>> THEN 0
    ELSE int_of(SubSeq(ds, 1, Len(ds) - 1)) * 10 + DigitVal(ds[Len(ds)])

\* str(n) / f"{n}" for n >= 0
RECURSIVE decimal(_)
decimal(n) ==
    IF n < 10 THEN <<DigitChars[n + 1]>>
    ELSE Append(decimal(n \div 10), DigitChars[(n % 10) + 1])

\* f"{n:02d}" for n >= 0
decimal02(n) == IF n < 10 THEN <<"0">> \o decimal(n) ELSE decimal(n)

\* str.strip()
RECURSIVE lstrip(_)
lstrip(s) == IF s # <<>> /\ IsSpace(Head(s)) THEN lstrip(Tail(s)) ELSE s
RECURSIVE rstrip(_)
rstrip(s) ==
    IF s # <<>> /\ IsSpace(s[Len(s)]) THEN rstrip(SubSeq(s, 1, Len(s) - 1)) ELSE s
strip(s) == rstrip(lstrip(s))

\* str.upper()
upper(s) == [i \in 1..Len(s) |-> Upper(s[i])]

\* str.replace(".", "")
RECURSIVE remove_dots(_)
remove_dots(s) ==
    IF s = <<>> THEN <<>>
    ELSE IF Head(s) = "." THEN remove_dots(Tail(s))
    ELSE <<Head(s)>> \o remove_dots(Tail(s))

\* ------------------------------------------------------------ cell values

\* A Python value as a cell or an argument holds it.
StrV(chars) == [type |-> "str", chars |-> chars]
IntV(n) == [type |-> "int", n |-> n]
NoneV == [type |-> "NoneType"]
\* bool(v)
truthy(v) ==
    CASE v.type = "str" -> v.chars # <<>>
      [] v.type = "int" -> v.n # 0
      [] OTHER          -> v.type # "NoneType"

\* --------------------------------------------------------- parse_time_range

\* \s* from position i: the position after the run of whitespace.
RECURSIVE skip_spaces(_, _)
skip_spaces(s, i) == IF IsSpace(At(s, i)) THEN skip_spaces(s, i + 1) ELSE i

\* (\d{1,2}(?::\d{2})?) at position i: the position after it, 0 for no match.
\* The quantifiers are greedy; what follows the group in the pattern is never
\* a digit or a colon, so no shorter match of the group can succeed.
match_time(s, i) ==
    IF ~IsDigit(At(s, i)) THEN 0
    ELSE LET j == IF IsDigit(At(s, i + 1)) THEN i + 2 ELSE i + 1
         IN  IF At(s, j) = ":" /\ IsDigit(At(s, j + 1)) /\ IsDigit(At(s, j + 2))
             THEN j + 3 ELSE j

\* (AM|PM) under re.IGNORECASE at position i.
match_ampm(s, i) ==
    IF Upper(At(s, i)) \in {"A", "P"} /\ Upper(At(s, i + 1)) = "M" THEN i + 2 ELSE 0

\* [-–] at position i.
match_dash(s, i) == IF At(s, i) \in {"-", "ndash"} THEN i + 1 ELSE 0

\* re.match(pattern, text, re.IGNORECASE): the four groups, or None.  re.match
\* anchors the start of the text only.
range_match(s) ==
    LET e1 == match_time(s, 1)
        a1 == IF e1 = 0 THEN 0 ELSE match_ampm(s, skip_spaces(s, e1))
        d  == IF a1 = 0 THEN 0 ELSE match_dash(s, skip_spaces(s, a1))
        b2 == IF d = 0 THEN 0 ELSE skip_spaces(s, d)
        e2 == IF d = 0 THEN 0 ELSE match_time(s, b2)
        a2 == IF e2 = 0 THEN 0 ELSE match_ampm(s, skip_spaces(s, e2))
    IN  IF a2 = 0 THEN None
        ELSE <<SubSeq(s, 1, e1 - 1), SubSeq(s, a1 - 2, a1 - 1),
               SubSeq(s, b2, e2 - 1), SubSeq(s, a2 - 2, a2 - 1)>>

\* _parse_hm(time_str, ampm)
parse_hm(time_str, ampm) ==
    LET ap == upper(ampm)
        colon == {k \in 1..Len(time_str) : time_str[k] = ":"}
        hour0 == IF colon # {}
                 THEN int_of(SubSeq(time_str, 1, SetMin(colon) - 1))
                 ELSE int_of(time_str)
        minute == IF colon # {}
                  THEN int_of(SubSeq(time_str, SetMin(colon) + 1, Len(time_str)))
                  ELSE 0
        hour1 == IF ap = <<"P", "M">> /\ hour0 # 12 THEN hour0 + 12 ELSE hour0
        hour2 == IF ap = <<"A", "M">> /\ hour1 = 12 THEN 0 ELSE hour1
    IN  <<hour2, minute>>

\* parse_time_range(text)
parse_time_range(v) ==
    IF ~truthy(v) \/ v.type # "str" THEN None
    ELSE LET m == range_match(strip(v.chars))
         IN  IF m = None THEN None
             ELSE LET start == parse_hm(m[1], m[2])
                      end == parse_hm(m[3], m[4])
                  IN  IF Truthy(start) /\ Truthy(end) THEN <<start, end>> ELSE None

\* -------------------------------------------------------- format_time_short

format_time_short(hour, minute) ==
    LET display_hour == IF hour = 0 THEN 12
                        ELSE IF hour < 12 THEN hour
                        ELSE IF hour = 12 THEN 12
                        ELSE hour - 12
        suffix == IF hour < 12 THEN "A" ELSE "P"
    IN  IF minute = 0
        THEN Append(decimal(display_hour), suffix)
        ELSE Append(decimal(display_hour) \o decimal02(minute), suffix)

\* ------------------------------------------------------ _parse_compact_time

\* (\d{1,2}):(\d{2})\s*(AM|PM|A|P) at the start of s: <<hour digits, minute
\* digits, first meridiem letter>>, or None.
compact_colon_match(s) ==
    IF ~IsDigit(At(s, 1)) THEN None
    ELSE LET j == IF IsDigit(At(s, 2)) THEN 3 ELSE 2
             k == skip_spaces(s, j + 3)
         IN  IF At(s, j) = ":" /\ IsDigit(At(s, j + 1)) /\ IsDigit(At(s, j + 2))
                /\ At(s, k) \in {"A", "P"}
             THEN <<SubSeq(s, 1, j - 1), SubSeq(s, j + 1, j + 2), At(s, k)>>
             ELSE None

\* The length of the run of digits at the start of s.
RECURSIVE digit_run(_, _)
digit_run(s, i) == IF IsDigit(At(s, i + 1)) THEN digit_run(s, i + 1) ELSE i

\* (\d{1,4})\s*(A|P|AM|PM) at the start of s: <<digits, first meridiem
\* letter>>, or None.  What follows \d{1,4} is never a digit, so only the
\* whole run of digits can match, and only when it has at most four.
compact_plain_match(s) ==
    LET n == digit_run(s, 0)
        k == skip_spaces(s, n + 1)
    IN  IF n >= 1 /\ n <= 4 /\ At(s, k) \in {"A", "P"}
        THEN <<SubSeq(s, 1, n), At(s, k)>>
        ELSE None

compact_split_2_1(num_str) ==
    IF Len(num_str) <= 2 THEN <<int_of(num_str), 0>>
    ELSE <<int_of(SubSeq(num_str, 1, 2)), int_of(SubSeq(num_str, 3, Len(num_str)))>>

\* The split of the digit run into hour and minute.
compact_split(num_str) ==
    IF Len(num_str) <= 2 THEN <<int_of(num_str), 0>>
    ELSE IF Len(num_str) = 3
    THEN <<int_of(SubSeq(num_str, 1, 1)), int_of(SubSeq(num_str, 2, 3))>>
    ELSE <<int_of(SubSeq(num_str, 1, 2)), int_of(SubSeq(num_str, 3, Len(num_str)))>>

\* The meridiem adjustment shared by both branches.
compact_adjust(hour, minute, ap) ==
    LET hour1 == IF ap = "P" /\ hour # 12 THEN hour + 12 ELSE hour
        hour2 == IF ap = "A" /\ hour1 = 12 THEN 0 ELSE hour1
    IN  <<hour2, minute>>

\* _parse_compact_time(text), text a str
parse_compact_time(chars) ==
    IF chars = <<>> THEN None
    ELSE LET s == remove_dots(upper(strip(chars)))
             m1 == compact_colon_match(s)
             m2 == compact_plain_match(s)
         IN  IF m1 # None
             THEN compact_adjust(int_of(m1[1]), int_of(m1[2]), m1[3])
             ELSE IF m2 # None
             THEN LET hm == compact_split(m2[1])
                  IN  compact_adjust(hm[1], hm[2], m2[2])
             ELSE None

\* ------------------------------------------------------------- SpecTime

\* Every half-hour TimePoint of a day.
HalfHourPoints == {<<h, m>> : h \in 0..23, m \in {0, 30}}

\* Written times: an hour numeral, alone or with minutes.
HourTexts == {decimal(n) : n \in 0..MaxHourText}
MinuteTexts == {<<>>, <<":", "0", "0">>, <<":", "3", "0">>}
TimeTexts == {h \o mm : h \in HourTexts, mm \in MinuteTexts}

\* Cells of the shape the ADP report uses: "<time> <AM|PM> - <time> <AM|PM>".
ReportTexts ==
    {t1 \o <<" ">> \o m1 \o <<" ", "-", " ">> \o t2 \o <<" ">> \o m2 :
        t1 \in TimeTexts, m1 \in {<<"A", "M">>, <<"P", "M">>},
        t2 \in TimeTexts, m2 \in {<<"A", "M">>, <<"P", "M">>}}

\* Cells around that shape: other spacing and case, either dash, a missing or
\* damaged part, text before or after.
VariantTexts ==
    {lead \o t1 \o sp \o m1 \o sep \o t2 \o sp \o m2 \o tail :
        lead \in {<<>>, <<" ">>, <<"x">>},
        t1 \in {<<"9">>, <<"1", "0", ":", "0", "0">>},
        sp \in {<<>>, <<" ">>},
        m1 \in {<<"A", "M">>, <<"p", "m">>, <<>>, <<"A">>},
        sep \in {<<"-">>, <<" ", "ndash", " ">>, <<" ", "t", "o", " ">>, <<" ">>},
        t2 \in {<<"5">>, <<"2", ":", "3", "0">>, <<"2", ":", "5">>, <<>>},
        m2 \in {<<"P", "M">>, <<"a", "m">>, <<>>, <<"P">>},
        tail \in {<<>>, <<" ">>, <<"x">>, <<" ", "x">>}}

\* What a caller can hand to parse_time_range.
RangeInputs ==
    {StrV(t) : t \in ReportTexts \cup VariantTexts}
    \cup {NoneV, IntV(0), IntV(930), StrV(<<"g", "a", "r", "b", "a", "g", "e">>)}

AxisHours == 0..MaxAxisHour

InitTime ==
    /\ ZoneIdle /\ ParseIdle /\ ProjIdle /\ RenderIdle /\ ConfigIdle /\ SplitIdle
    /\ tpc = "call"
    /\ tr = None /\ label = None /\ reparsed = None /\ time_slots = <<>>
    /\ \/ text \in RangeInputs /\ tpoint = None /\ window = None
       \/ text = None /\ tpoint \in HalfHourPoints /\ window = None
       \/ text = None /\ tpoint = None /\ window \in AxisHours \X AxisHours

\* tr = parse_time_range(text)
ParseTimeRange ==
    /\ tpc = "call" /\ text # None
    /\ tr' = parse_time_range(text)
    /\ tpc' = "ret"
    /\ UNCHANGED <<text, tpoint, label, reparsed, window, time_slots>>
    /\ UNCHANGED <<zoneVars, parseVars, projVars, renderVars, configVars, splitVars>>

\* label = format_time_short(*tpoint)
FormatTimeShort ==
    /\ tpc = "call" /\ tpoint # None
    /\ label' = format_time_short(tpoint[1], tpoint[2])
    /\ tpc' = "mid"
    /\ UNCHANGED <<text, tr, tpoint, reparsed, window, time_slots>>
    /\ UNCHANGED <<zoneVars, parseVars, projVars, renderVars, configVars, splitVars>>

\* reparsed = _parse_compact_time(label)
ParseCompactTime ==
    /\ tpc = "mid"
    /\ reparsed' = parse_compact_time(label)
    /\ tpc' = "ret"
    /\ UNCHANGED <<text, tr, tpoint, label, window, time_slots>>
    /\ UNCHANGED <<zoneVars, parseVars, projVars, renderVars, configVars, splitVars>>

\* time_slots = generate_time_slots(*window)
GenerateTimeSlots ==
    /\ tpc = "call" /\ window # None
    /\ time_slots' = generate_time_slots(window[1], window[2])
    /\ tpc' = "ret"
    /\ UNCHANGED <<text, tr, tpoint, label, reparsed, window>>
    /\ UNCHANGED <<zoneVars, parseVars, projVars, renderVars, configVars, splitVars>>

NextTime == ParseTimeRange \/ FormatTimeShort \/ ParseCompactTime \/ GenerateTimeSlots

SpecTime == InitTime /\ [][NextTime]_vars

\* ------------------------------------------------ time primitives: claims

\* C5: _parse_compact_time(format_time_short(t)) = t for every half-hour
\* TimePoint t of a day.
C5_RoundTrip ==
    (tpc = "ret" /\ tpoint # None) => reparsed = tpoint

\* 12:30 AM, whose label "1230A" has four digits and the hour written 12,
\* came back as (0, 30).
C5_Witness ==
    /\ tpc = "ret" /\ tpoint = <<0, 30>>
    /\ label = <<"1", "2", "3", "0", "A">>
    /\ reparsed = <<0, 30>>

\* C6: generate_time_slots(s, e) is the ascending half-hour sequence from
\* (s, 0) through (e, 0): 2 * (e - s) + 1 slots; empty when s > e.
C6_SlotsExact ==
    (tpc = "ret" /\ window # None)
        => IF window[1] > window[2] THEN time_slots = <<>>
           ELSE /\ Len(time_slots) = 2 * (window[2] - window[1]) + 1
                /\ \A k \in 1..Len(time_slots) :
                     time_slots[k] = <<window[1] + ((k - 1) \div 2),
                                       30 * ((k - 1) % 2)>>

\* A window of several hours whose last slot is (end_hour, 0).
C6_Witness ==
    /\ tpc = "ret" /\ window # None
    /\ window[1] + 2 <= window[2]
    /\ time_slots # <<>>
    /\ time_slots[Len(time_slots)] = <<window[2], 0>>

\* The text handed to parse_time_range was a str, stripped of outer blanks.
GivenChars == IF text.type = "str" THEN strip(text.chars) ELSE <<>>
Cut(s, i, j) == SubSeq(s, i + 1, j)
AllDigits(u) == \A k \in 1..Len(u) : IsDigit(u[k])
\* <time>: H, HH, H:MM or HH:MM
IsTimeText(u) ==
    \/ Len(u) \in {1, 2} /\ AllDigits(u)
    \/ /\ Len(u) \in {4, 5}
       /\ u[Len(u) - 2] = ":"
       /\ AllDigits(SubSeq(u, 1, Len(u) - 3))
       /\ AllDigits(SubSeq(u, Len(u) - 1, Len(u)))
\* <AM|PM>, in either case
IsMeridiem(u) == Len(u) = 2 /\ Upper(u[1]) \in {"A", "P"} /\ Upper(u[2]) = "M"
IsBlank(u) == \A k \in 1..Len(u) : IsSpace(u[k])
IsDash(u) == Len(u) = 1 /\ u[1] \in {"-", "ndash"}
\* s is <time> <AM|PM> <dash> <time> <AM|PM> and nothing else (blanks between
\* the parts are optional).
ExactShape(s) ==
    \E a \in 1..Len(s) : IsTimeText(Cut(s, 0, a)) /\
    \E b \in a..Len(s) : IsBlank(Cut(s, a, b)) /\
    \E c \in b..Len(s) : IsMeridiem(Cut(s, b, c)) /\
    \E d \in c..Len(s) : IsBlank(Cut(s, c, d)) /\
    \E e \in d..Len(s) : IsDash(Cut(s, d, e)) /\
    \E f \in e..Len(s) : IsBlank(Cut(s, e, f)) /\
    \E g \in f..Len(s) : IsTimeText(Cut(s, f, g)) /\
    \E h \in g..Len(s) : IsBlank(Cut(s, g, h)) /\
                         IsMeridiem(Cut(s, h, Len(s)))

\* C7: every TimeRange parse_time_range returns has start < end in minutes
\* since midnight.
C7_StartBeforeEnd ==
    (tpc = "ret" /\ text # None /\ tr # None)
        => tr[1][1] * 60 + tr[1][2] < tr[2][1] * 60 + tr[2][2]

\* C8: parse_time_range returns None for every input that is not exactly of
\* the shape <time> <AM|PM> <dash> <time> <AM|PM>.
C8_RejectsOtherShapes ==
    (tpc = "ret" /\ text # None)
        => (~(text.type = "str" /\ ExactShape(GivenChars)) => tr = None)

\* The hour numeral the text starts with, and the first meridiem letter.
WrittenStartHour ==
    int_of(SubSeq(GivenChars, 1, IF IsDigit(At(GivenChars, 2)) THEN 2 ELSE 1))
StartMeridiem ==
    Upper(GivenChars[SetMin({k \in 1..Len(GivenChars) :
                                Upper(GivenChars[k]) \in {"A", "P"}})])

\* C9: 12 AM is hour 0, 12 PM is hour 12, 1..11 PM are hour + 12, 1..11 AM are
\* themselves, and every parsed TimePoint has its hour in 0..23.
C9_MeridiemConversion ==
    (tpc = "ret" /\ text # None /\ tr # None)
        => /\ (WrittenStartHour = 12 /\ StartMeridiem = "A") => tr[1][1] = 0
           /\ (WrittenStartHour = 12 /\ StartMeridiem = "P") => tr[1][1] = 12
           /\ (WrittenStartHour \in 1..11 /\ StartMeridiem = "P")
                  => tr[1][1] = WrittenStartHour + 12
           /\ (WrittenStartHour \in 1..11 /\ StartMeridiem = "A")
                  => tr[1][1] = WrittenStartHour
           /\ tr[1][1] \in 0..23
           /\ tr[2][1] \in 0..23

\* ------------------------------------------------------------ sheet texts

SUN == <<"S", "u", "n">>
MON == <<"M", "o", "n">>
TUE == <<"T", "u", "e">>
WED == <<"W", "e", "d">>
THU == <<"T", "h", "u">>
FRI == <<"F", "r", "i">>
SAT == <<"S", "a", "t">>
UNDER == <<"U", "n", "d", "e", "r">>
UNDERARMOUR == <<"U", "n", "d", "e", "r", " ", "A", "r", "m", "o", "u", "r", "/">>
EMPLOYEE == <<"E", "m", "p", "l", "o", "y", "e", "e">>
DATEPREFIX == <<"2", "0", "2", "5", "-", "0", "1", "-">>
DATESUFFIX == <<" ", "0", "0", ":", "0", "0", ":", "0", "0">>
WEEKLY == <<"W", "e", "e", "k", "l", "y">>
PERIOD1 == <<"1", "/", "5", "/", "2", "5", " ", "-", " ", "1", "/", "1", "1", "/", "2", "5">>
PERIOD2 == <<"1", "/", "1", "2", "/", "2", "5", "-", "1", "/", "1", "8", "/", "2", "5">>
DEPT1 == <<"U", "n", "d", "e", "r", " ", "A", "r", "m", "o", "u", "r", "/", "N", "A", "/", "S", "t", "o", "r", "e">>
DEPT2 == <<"U", "n", "d", "e", "r", " ", "A", "r", "m", "o", "u", "r", "/", "N", "A", "/", "O", "u", "t", "l", "e", "t">>
JOB == <<"J", "o", "b">>
TOTAL == <<"T", "o", "t", "a", "l">>
LEAD == <<"L", "e", "a", "d">>
OFF == <<"O", "F", "F">>
NAME1 == <<"N", "g", ",", " ", "A", "l">>
NAME3 == <<"D", "i", "a", "z", ",", " ", "B", "o">>
NAME2 == <<"U", "n", "d", "e", "r", "w", "o", "o", "d", ",", " ", "J", "o">>
EARLY == <<"9", " ", "A", "M", " ", "-", " ", "1", " ", "P", "M">>
LATE == <<"2", " ", "P", "M", " ", "-", " ", "6", " ", "P", "M">>

\* --------------------------------------------------------- parse_adp_report

DateV(d) == [type |-> "datetime", d |-> d]

\* str(val): a str is itself, an int its decimal numeral, a datetime
\* "2025-01-DD 00:00:00".
str_of(v) ==
    CASE v.type = "str"      -> v.chars
      [] v.type = "int"      -> decimal(v.n)
      [] v.type = "datetime" -> DATEPREFIX \o decimal02(v.d) \o DATESUFFIX
      [] OTHER               -> <<"N", "o", "n", "e">>

\* row[c] for a 0-based column index c
Cell(row, c) == row[c + 1]

\* str.startswith(prefix)
StartsWith(s, prefix) ==
    Len(s) >= Len(prefix) /\ SubSeq(s, 1, Len(prefix)) = prefix

\* cell_a.split("/")[-1]
last_part(s) ==
    LET slashes == {k \in 1..Len(s) : s[k] = "/"}
    IN  IF slashes = {} THEN s ELSE SubSeq(s, SetMax(slashes) + 1, Len(s))

DAY_ABBREVS == {SUN, MON, TUE, WED, THU, FRI, SAT}
DEPT_PREFIX == UNDERARMOUR
NAME_EXCLUDED_PREFIX == UNDER
EMPLOYEE_LABEL == EMPLOYEE

\* cell_a = row[0] if row[0] else ""
cell_a_of(row) == IF truthy(Cell(row, 0)) THEN Cell(row, 0) ELSE StrV(<<>>)

\* isinstance(cell_a, str) and cell_a.startswith("Under Armour/")
is_department_row(cell_a) ==
    cell_a.type = "str" /\ StartsWith(cell_a.chars, DEPT_PREFIX)

\* cell_a == "Employee"
is_header_row(cell_a) ==
    cell_a.type = "str" /\ cell_a.chars = EMPLOYEE_LABEL

\* isinstance(cell_a, str) and cell_a and "," in cell_a
\*     and not cell_a.startswith("Under")
is_employee_row(cell_a) ==
    /\ cell_a.type = "str" /\ cell_a.chars # <<>>
    /\ \E k \in 1..Len(cell_a.chars) : cell_a.chars[k] = ","
    /\ ~StartsWith(cell_a.chars, NAME_EXCLUDED_PREFIX)

\* current_employee and not cell_a
is_continuation_row(cur, cell_a) == cur # 0 /\ ~truthy(cell_a)

\* The header scan: the columns of header_row holding a day abbreviation, each
\* with the date below it if that cell is a datetime.
header_day_columns(header_row, date_row) ==
    LET cols == {c \in 0..(Len(header_row) - 1) :
                    /\ Cell(header_row, c).type = "str"
                    /\ Cell(header_row, c).chars \in DAY_ABBREVS}
    IN  [c \in cols |->
            [abbrev |-> Cell(header_row, c).chars,
             date   |-> IF c < Len(date_row) /\ Cell(date_row, c).type = "datetime"
                        THEN Cell(date_row, c) ELSE NoneV]]

\* dict.setdefault(k, []).append(v)
setdefault_append(d, k, v) ==
    IF k \in DOMAIN d THEN [d EXCEPT ![k] = Append(@, v)]
    ELSE [x \in (DOMAIN d) \cup {k} |-> IF x = k THEN <<v>> ELSE d[x]]

\* for col_idx in day_columns: ... shifts.setdefault(col_idx, []).append(tr),
\* over the columns cols still to visit.
RECURSIVE collect_shifts(_, _, _)
collect_shifts(row, cols, shifts) ==
    IF cols = {} THEN shifts
    ELSE LET c == SetMin(cols)
             val == IF c < Len(row) THEN Cell(row, c) ELSE NoneV
             tr0 == IF c < Len(row)
                    THEN parse_time_range(
                             IF truthy(val) THEN StrV(str_of(val)) ELSE StrV(<<>>))
                    ELSE None
         IN  collect_shifts(row, cols \ {c},
                            IF tr0 # None THEN setdefault_append(shifts, c, tr0)
                            ELSE shifts)

\* The dict an employee name row makes.
new_employee(row, cell_a, dept, day_cols) ==
    LET job == IF Len(row) > 6 /\ truthy(Cell(row, 6)) THEN Cell(row, 6) ELSE StrV(<<>>)
    IN  [name          |-> strip(cell_a.chars),
         job           |-> IF truthy(job) THEN strip(str_of(job)) ELSE <<>>,
         department    |-> dept,
         shifts_by_day |-> collect_shifts(row, DOMAIN day_cols, <<>>)]

\* \d+ at position i: the position after the run of digits, 0 for no digit.
RECURSIVE digits_end(_, _)
digits_end(s, i) == IF IsDigit(At(s, i)) THEN digits_end(s, i + 1) ELSE i
match_digits(s, i) == IF i # 0 /\ IsDigit(At(s, i)) THEN digits_end(s, i) ELSE 0
match_char(s, i, c) == IF i # 0 /\ At(s, i) = c THEN i + 1 ELSE 0
\* \d+/\d+/\d+ at position i
match_date(s, i) ==
    match_digits(s, match_char(s, match_digits(s,
        match_char(s, match_digits(s, i), "/")), "/"))

\* re.match(r'\d+/\d+/\d+\s*-\s*\d+/\d+/\d+', val) on a str cell
is_period(val) ==
    /\ val.type = "str"
    /\ LET d1 == match_date(val.chars, 1)
           dash == IF d1 = 0 THEN 0
                   ELSE match_char(val.chars, skip_spaces(val.chars, d1), "-")
       IN  dash # 0 /\ match_date(val.chars, skip_spaces(val.chars, dash)) # 0

\* The inner loop over the columns of one row: the first matching cell of the
\* row is stored and the inner loop left.
period_of_row(row, period) ==
    LET hits == {c \in 0..(Len(row) - 1) : is_period(Cell(row, c))}
    IN  IF hits = {} THEN period ELSE Cell(row, SetMin(hits)).chars

\* The outer loop over the rows range(min(5, len(grid))), from row k on.
RECURSIVE period_scan(_, _, _)
period_scan(g, k, period) ==
    IF k >= (IF Len(g) < 5 THEN Len(g) ELSE 5) THEN period
    ELSE period_scan(g, k + 1, period_of_row(g[k + 1], period))

\* ------------------------------------------------------------ SpecParse

\* A sheet row of seven columns: A, two day columns, the column the report
\* writes its period in, and the job column G.
Row(a, c1, c2, c4, job) == <<a, c1, c2, NoneV, c4, NoneV, job>>

EarlyShift == StrV(EARLY)
LateShift == StrV(LATE)

TitleRow1 == Row(StrV(WEEKLY), NoneV, NoneV, StrV(PERIOD1), NoneV)
TitleRow2 == Row(NoneV, NoneV, NoneV, StrV(PERIOD2), NoneV)
DeptRow1 == Row(StrV(DEPT1), NoneV, NoneV, NoneV, NoneV)
DeptRow2 == Row(StrV(DEPT2), NoneV, NoneV, NoneV, NoneV)
HeaderRow1 == Row(StrV(EMPLOYEE), StrV(SUN), StrV(MON), NoneV, StrV(JOB))
HeaderRow2 == Row(StrV(EMPLOYEE), StrV(MON), StrV(TOTAL), NoneV, StrV(JOB))
DateRow1 == Row(NoneV, DateV(5), DateV(6), NoneV, NoneV)
NameRow1 == Row(StrV(NAME1), EarlyShift, NoneV, NoneV, StrV(LEAD))
NameRow2 == Row(StrV(NAME1), NoneV, LateShift, NoneV, NoneV)
NameRow3 == Row(StrV(NAME2), EarlyShift, NoneV, NoneV, StrV(LEAD))
NameRow4 == Row(StrV(NAME3), LateShift, EarlyShift, NoneV, NoneV)
ContRow1 == Row(NoneV, NoneV, EarlyShift, NoneV, NoneV)
ContRow2 == Row(NoneV, StrV(OFF), LateShift, NoneV, NoneV)
NoiseRow == Row(StrV(TOTAL), IntV(8), NoneV, NoneV, NoneV)

\* The leading rows of a sheet: title rows, then a department header and the
\* column header with its date row.
HeadRows ==
    {t \o h : t \in {<<>>, <<TitleRow1>>, <<TitleRow1, TitleRow2>>},
              h \in {<<>>, <<HeaderRow1, DateRow1>>,
                     <<DeptRow1, HeaderRow1, DateRow1>>}}

BodyRows ==
    {NameRow1, NameRow2, NameRow3, NameRow4, ContRow1, ContRow2, DeptRow2,
     HeaderRow2, NoiseRow}

RECURSIVE RowSeqs(_)
RowSeqs(n) ==
    IF n = 0 THEN {<<>>}
    ELSE LET shorter == RowSeqs(n - 1)
         IN  shorter \cup {Append(b, row) : b \in {x \in shorter : Len(x) = n - 1},
                                            row \in BodyRows}

Grids == {h \o b : h \in HeadRows, b \in RowSeqs(MaxBodyRows)}

InitParse ==
    /\ ZoneIdle /\ TimeIdle /\ ProjIdle /\ RenderIdle /\ ConfigIdle /\ SplitIdle
    /\ grid \in Grids
    /\ r = 0
    /\ current_dept = <<>>
    /\ day_columns = <<>>
    /\ current_employee = 0
    /\ employees = <<>>
    /\ days = <<>>
    /\ time_period = <<>>
    /\ cpc = "period"

\* if not grid: return result
EmptyGrid ==
    /\ cpc = "period" /\ grid = <<>>
    /\ cpc' = "done"
    /\ UNCHANGED <<grid, r, current_dept, day_columns, current_employee,
                   employees, days, time_period>>
    /\ UNCHANGED <<zoneVars, timeVars, projVars, renderVars, configVars, splitVars>>

\* The scan of the first rows for the reporting period.
ScanTimePeriod ==
    /\ cpc = "period" /\ grid # <<>>
    /\ time_period' = period_scan(grid, 0, <<>>)
    /\ cpc' = "loop"
    /\ UNCHANGED <<grid, r, current_dept, day_columns, current_employee,
                   employees, days>>
    /\ UNCHANGED <<zoneVars, timeVars, projVars, renderVars, configVars, splitVars>>

AtRow == cpc = "loop" /\ r < Len(grid)
CurrentRow == grid[r + 1]
CurrentA == cell_a_of(CurrentRow)

\* Department header row.
DepartmentRow ==
    /\ AtRow
    /\ is_department_row(CurrentA)
    /\ current_dept' = last_part(CurrentA.chars)
    /\ r' = r + 1
    /\ UNCHANGED <<grid, day_columns, current_employee, employees, days,
                   time_period, cpc>>
    /\ UNCHANGED <<zoneVars, timeVars, projVars, renderVars, configVars, splitVars>>

\* A header branch that skips two rows without looking for the date row.
HeaderRow_overrun ==
    /\ AtRow
    /\ ~is_department_row(CurrentA)
    /\ is_header_row(CurrentA)
    /\ day_columns' = IF r + 1 < Len(grid)
                      THEN header_day_columns(CurrentRow, grid[r + 2])
                      ELSE <<>>
    /\ r' = r + 2
    /\ UNCHANGED <<grid, current_dept, current_employee, employees, days,
                   time_period, cpc>>
    /\ UNCHANGED <<zoneVars, timeVars, projVars, renderVars, configVars, splitVars>>

\* Column header row: with a row below it, and as the last row of the sheet.
HeaderRow ==
    /\ AtRow
    /\ ~is_department_row(CurrentA)
    /\ is_header_row(CurrentA)
    /\ \/ /\ r + 1 < Len(grid)
          /\ day_columns' = header_day_columns(CurrentRow, grid[r + 2])
          /\ r' = r + 2
       \/ /\ ~(r + 1 < Len(grid))
          /\ day_columns' = <<>>
          /\ r' = r + 1
    /\ UNCHANGED <<grid, current_dept, current_employee, employees, days,
                   time_period, cpc>>
    /\ UNCHANGED <<zoneVars, timeVars, projVars, renderVars, configVars, splitVars>>

\* Employee name row.
EmployeeRow ==
    /\ AtRow
    /\ ~is_department_row(CurrentA)
    /\ ~is_header_row(CurrentA)
    /\ is_employee_row(CurrentA)
    /\ employees' = Append(employees,
                           new_employee(CurrentRow, CurrentA, current_dept,
                                        day_columns))
    /\ current_employee' = Len(employees) + 1
    /\ r' = r + 1
    /\ UNCHANGED <<grid, current_dept, day_columns, days, time_period, cpc>>
    /\ UNCHANGED <<zoneVars, timeVars, projVars, renderVars, configVars, splitVars>>

ContinuationRow_to_first ==
    /\ AtRow
    /\ ~is_department_row(CurrentA)
    /\ ~is_header_row(CurrentA)
    /\ ~is_employee_row(CurrentA)
    /\ is_continuation_row(current_employee, CurrentA)
    /\ employees' = [employees EXCEPT ![1].shifts_by_day =
                        collect_shifts(CurrentRow, DOMAIN day_columns, @)]
    /\ r' = r + 1
    /\ UNCHANGED <<grid, current_dept, day_columns, current_employee, days,
                   time_period, cpc>>
    /\ UNCHANGED <<zoneVars, timeVars, projVars, renderVars, configVars, splitVars>>

\* Continuation row: more shifts for current_employee.
ContinuationRow ==
    /\ AtRow
    /\ ~is_department_row(CurrentA)
    /\ ~is_header_row(CurrentA)
    /\ ~is_employee_row(CurrentA)
    /\ is_continuation_row(current_employee, CurrentA)
    /\ employees' = [employees EXCEPT ![current_employee].shifts_by_day =
                        collect_shifts(CurrentRow, DOMAIN day_columns, @)]
    /\ r' = r + 1
    /\ UNCHANGED <<grid, current_dept, day_columns, current_employee, days,
                   time_period, cpc>>
    /\ UNCHANGED <<zoneVars, timeVars, projVars, renderVars, configVars, splitVars>>

\* Any other row.
OtherRow ==
    /\ AtRow
    /\ ~is_department_row(CurrentA)
    /\ ~is_header_row(CurrentA)
    /\ ~is_employee_row(CurrentA)
    /\ ~is_continuation_row(current_employee, CurrentA)
    /\ r' = r + 1
    /\ UNCHANGED <<grid, current_dept, day_columns, current_employee, employees,
                   days, time_period, cpc>>
    /\ UNCHANGED <<zoneVars, timeVars, projVars, renderVars, configVars, splitVars>>

\* The loop ends: result["days"] is set from day_columns, result returned.
FinishParse ==
    /\ cpc = "loop" /\ ~(r < Len(grid))
    /\ days' = IF days = <<>> /\ day_columns # <<>> THEN day_columns ELSE days
    /\ cpc' = "done"
    /\ UNCHANGED <<grid, r, current_dept, day_columns, current_employee,
                   employees, time_period>>
    /\ UNCHANGED <<zoneVars, timeVars, projVars, renderVars, configVars, splitVars>>

\* ------------------------------------------------- extract_day_schedule

\* key=lambda s: s[0][0] * 60 + s[0][1]
start_key(seg) == seg[1][1] * 60 + seg[1][2]

insert_at_end(sorted, x) == Append(sorted, x)

insert_before_equal(sorted, x) ==
    LET before == {k \in 1..Len(sorted) : start_key(sorted[k]) < start_key(x)}
        n == IF before = {} THEN 0 ELSE SetMax(before)
    IN  SubSeq(sorted, 1, n) \o <<x>> \o SubSeq(sorted, n + 1, Len(sorted))

\* One element placed into a sorted list: after every element whose key is not
\* larger (list.sort is stable).
insert_by_key(sorted, x) ==
    LET before == {k \in 1..Len(sorted) : start_key(sorted[k]) <= start_key(x)}
        n == IF before = {} THEN 0 ELSE SetMax(before)
    IN  SubSeq(sorted, 1, n) \o <<x>> \o SubSeq(sorted, n + 1, Len(sorted))

\* segments.sort(key=...)
RECURSIVE sort_by_start(_)
sort_by_start(segs) ==
    IF segs = <<>> THEN <<>>
    ELSE insert_by_key(sort_by_start(SubSeq(segs, 1, Len(segs) - 1)), Last(segs))

\* f"{format_time_short(sh, sm)}-{format_time_short(eh, em)}"
segment_text(seg) ==
    format_time_short(seg[1][1], seg[1][2]) \o <<"-">>
        \o format_time_short(seg[2][1], seg[2][2])

\* " / ".join(shift_parts)
RECURSIVE join_parts(_)
join_parts(parts) ==
    IF parts = <<>> THEN <<>>
    ELSE IF Len(parts) = 1 THEN parts[1]
    ELSE parts[1] \o <<" ", "/", " ">> \o join_parts(Tail(parts))

shift_text_of(segments) ==
    join_parts([k \in 1..Len(segments) |-> segment_text(segments[k])])

\* The break inferred from the gap after the first segment.
break_text_of(segments) ==
    IF Len(segments) >= 2
    THEN format_time_short(segments[1][2][1], segments[1][2][2])
    ELSE <<>>

\* emp["shifts_by_day"].get(target_col, [])
segments_for(e, c) ==
    IF c \in DOMAIN e.shifts_by_day THEN e.shifts_by_day[c] ELSE <<>>

\* The dict appended for employee e, whose sorted segments are given.
day_entry(e, segments) ==
    [name       |-> e.name,
     job        |-> e.job,
     shift_text |-> shift_text_of(segments),
     break_text |-> break_text_of(segments)] @@ projected_employee(segments)

RECURSIVE extract_newest_first(_, _)
extract_newest_first(emps, c) ==
    IF emps = <<>> THEN <<>>
    ELSE LET segments == segments_for(Head(emps), c)
         IN  extract_newest_first(Tail(emps), c)
             \o (IF segments = <<>> THEN <<>>
                 ELSE <<day_entry(Head(emps), sort_by_start(segments))>>)

\* The list extract_day_schedule(parsed, target_col) returns.
RECURSIVE extract_day_schedule(_, _)
extract_day_schedule(emps, c) ==
    IF emps = <<>> THEN <<>>
    ELSE LET segments == segments_for(Head(emps), c)
         IN  (IF segments = <<>> THEN <<>>
              ELSE <<day_entry(Head(emps), sort_by_start(segments))>>)
             \o extract_day_schedule(Tail(emps), c)

employees_after_pop(emps, c) ==
    [k \in 1..Len(emps) |->
        IF segments_for(emps[k], c) = <<>> THEN emps[k]
        ELSE [emps[k] EXCEPT !.shifts_by_day[c] = Tail(@)]]

\* parsed["employees"] after the call: segments is the list object of the
\* model, and segments.sort sorts it in place.
employees_after_extract(emps, c) ==
    [k \in 1..Len(emps) |->
        IF segments_for(emps[k], c) = <<>> THEN emps[k]
        ELSE [emps[k] EXCEPT !.shifts_by_day[c] = sort_by_start(@)]]

\* DCOCreatorApp._load_day: the first projection of a day of the report.
ExtractDaySchedule ==
    /\ cpc = "done"
    /\ \E c \in DOMAIN days :
         /\ target_col' = c
         /\ schedule' = extract_day_schedule(employees, c)
         /\ employees' = employees_after_extract(employees, c)
    /\ cpc' = "projected"
    /\ UNCHANGED <<grid, r, current_dept, day_columns, current_employee, days,
                   time_period, schedule2>>
    /\ UNCHANGED <<zoneVars, timeVars, renderVars, configVars, splitVars>>

\* DCOCreatorApp._load_day again, for the same day.
ExtractAgain ==
    /\ cpc = "projected"
    /\ schedule2' = extract_day_schedule(employees, target_col)
    /\ employees' = employees_after_extract(employees, target_col)
    /\ cpc' = "projected2"
    /\ UNCHANGED <<grid, r, current_dept, day_columns, current_employee, days,
                   time_period, target_col, schedule>>
    /\ UNCHANGED <<zoneVars, timeVars, renderVars, configVars, splitVars>>

NextParse ==
    \/ EmptyGrid \/ ScanTimePeriod \/ DepartmentRow \/ HeaderRow \/ EmployeeRow
    \/ ContinuationRow \/ OtherRow \/ FinishParse \/ ExtractDaySchedule

SpecParse == InitParse /\ [][NextParse]_vars

\* One call of parse_adp_report runs to its return: no step of it waits for
\* anything, so a step that can be taken is taken.
parse_adp_report_step ==
    \/ EmptyGrid \/ ScanTimePeriod \/ DepartmentRow \/ HeaderRow \/ EmployeeRow
    \/ ContinuationRow \/ OtherRow \/ FinishParse

\* The call has not returned.  A step of it is possible exactly then: the
\* branches of the loop body are exhaustive and each of them moves r, and
\* the period scan and the return change cpc.
StepPending == cpc \in {"period", "loop"}

\* Weak fairness of the steps of the call, with the enabling condition
\* ENABLED <<parse_adp_report_step>>_vars written out as StepPending.
SpecParseFair ==
    /\ InitParse /\ [][NextParse]_vars
    /\ WF_vars(FinishParse)
    /\ ([]<>(~StepPending) \/ []<><<parse_adp_report_step>>_vars)

\* ------------------------------------------------------------ SpecProject

\* TimeRanges as parse_time_range returns them: two with the same start.
ProjRanges ==
    {<<<<9, 0>>, <<13, 30>>>>, <<<<9, 0>>, <<11, 0>>>>, <<<<14, 0>>, <<18, 0>>>>}

\* The lists of distinct ranges, in any order, rows can leave for one day.
RangeLists ==
    {q \in UNION {[1..n -> ProjRanges] : n \in 1..MaxSegs} :
        \A i, j \in 1..Len(q) : i # j => q[i] # q[j]}

\* shifts_by_day with list l1 for column 1 and l2 for column 2; a day without
\* a parsed range has no key.
shift_map(l1, l2) ==
    [c \in {k \in {1, 2} : (k = 1 /\ l1 # <<>>) \/ (k = 2 /\ l2 # <<>>)} |->
        IF c = 1 THEN l1 ELSE l2]

ShiftMaps ==
    {shift_map(l1, l2) : l1 \in RangeLists \cup {<<>>},
                         l2 \in {<<>>, <<<<<<14, 0>>, <<18, 0>>>>>>}}

\* The record of the k-th employee row.
model_employee(k, shifts) ==
    [name          |-> IF k % 2 = 1 THEN NAME1 ELSE NAME3,
     job           |-> LEAD,
     department    |-> <<>>,
     shifts_by_day |-> shifts]

\* The employee lists of parsed reports.
ParsedEmployees ==
    {[k \in 1..Len(f) |-> model_employee(k, f[k])] :
        f \in UNION {[1..n -> ShiftMaps] : n \in 0..MaxEmployees}}

InitProject ==
    /\ ZoneIdle /\ TimeIdle /\ ProjIdle /\ RenderIdle /\ ConfigIdle /\ SplitIdle
    /\ grid = <<>>
    /\ r = 0
    /\ current_dept = <<>>
    /\ day_columns = header_day_columns(HeaderRow1, DateRow1)
    /\ employees \in ParsedEmployees
    /\ current_employee = Len(employees)
    /\ days = day_columns
    /\ time_period = <<>>
    /\ cpc = "done"

NextProject == ExtractDaySchedule \/ ExtractAgain

SpecProject == InitProject /\ [][NextProject]_vars

\* ------------------------------------------------------ classifier: claims

\* Column A of the row the loop is at is a non-empty string that contains a
\* comma and does not begin with the department-header root prefix.
NameShapedA ==
    LET a == grid[r + 1][1]
    IN  /\ a.type = "str" /\ a.chars # <<>>
        /\ \E k \in 1..Len(a.chars) : a.chars[k] = ","
        /\ ~(Len(a.chars) >= Len(UNDERARMOUR)
             /\ SubSeq(a.chars, 1, Len(UNDERARMOUR)) = UNDERARMOUR)

\* C10: every row the classifier reaches whose column A is name-shaped creates
\* exactly one new EmployeeRecord, appended to the result and made
\* currentEmployee; no other row creates a record.
C10_EmployeeRowRule ==
    [][(cpc = "loop" /\ r < Len(grid))
          => IF NameShapedA
             THEN /\ Len(employees') = Len(employees) + 1
                  /\ SubSeq(employees', 1, Len(employees)) = employees
                  /\ current_employee' = Len(employees')
             ELSE Len(employees') = Len(employees)]_vars

\* The classifier is at a row whose column A equals "Employee".
AtHeaderRow ==
    /\ cpc = "loop" /\ r < Len(grid)
    /\ grid[r + 1][1] = StrV(EMPLOYEE)

\* The columns of the row at index k (1-based) holding a day abbreviation.
DayCellColumns(k) ==
    {c \in 0..(Len(grid[k]) - 1) :
        \E d \in {SUN, MON, TUE, WED, THU, FRI, SAT} : grid[k][c + 1] = StrV(d)}

\* The date below column c of the row at index k, none without such a cell.
DateBelow(k, c) ==
    IF k + 1 <= Len(grid) /\ c < Len(grid[k + 1])
       /\ grid[k + 1][c + 1].type = "datetime"
    THEN grid[k + 1][c + 1] ELSE NoneV

\* C11: whenever the classifier reaches a row whose column A equals
\* "Employee", the DayColumn map is replaced by exactly the columns of that
\* row holding a day abbreviation, each with the date from the row below if
\* that cell is a calendar date and none otherwise, and the scan advances two
\* rows.
C11_HeaderRule ==
    [][AtHeaderRow
          => /\ DOMAIN day_columns' = DayCellColumns(r + 1)
             /\ \A c \in DayCellColumns(r + 1) :
                  /\ day_columns'[c].abbrev = grid[r + 1][c + 1].chars
                  /\ day_columns'[c].date = DateBelow(r + 1, c)
             /\ r' = r + 2]_vars

\* The classifier is at a row whose column A is empty or falsy.
AtBlankRow ==
    /\ cpc = "loop" /\ r < Len(grid)
    /\ ~truthy(grid[r + 1][1])

\* The time range parsed from column c of the row at index k, None if the
\* cell does not parse.
CellRange(k, c) ==
    LET v == grid[k][c + 1]
    IN  IF truthy(v) THEN parse_time_range(StrV(str_of(v))) ELSE None

\* The TimeRange list of record e for column c, empty without one.
ListOf(e, c) == IF c \in DOMAIN e.shifts_by_day THEN e.shifts_by_day[c] ELSE <<>>

\* C12: a row with empty/falsy column A reached while currentEmployee is set
\* appends each successfully parsed time range, for every known DayColumn, to
\* the most recently created EmployeeRecord, changing no earlier record and
\* creating none; reached before any employee row it has no effect; and
\* currentEmployee changes only at an employee-name row.
C12_ContinuationRows ==
    [][/\ AtBlankRow
          => IF current_employee = 0
             THEN employees' = employees /\ current_employee' = 0
             ELSE /\ current_employee = Len(employees)
                  /\ current_employee' = current_employee
                  /\ Len(employees') = Len(employees)
                  /\ \A i \in 1..(Len(employees) - 1) : employees'[i] = employees[i]
                  /\ LET old == employees[Len(employees)]
                         new == employees'[Len(employees)]
                     IN  /\ new.name = old.name /\ new.job = old.job
                         /\ new.department = old.department
                         /\ \A c \in 0..(Len(grid[r + 1]) - 1) :
                              ListOf(new, c) =
                                ListOf(old, c) \o
                                  (IF c \in DOMAIN day_columns
                                      /\ CellRange(r + 1, c) # None
                                   THEN <<CellRange(r + 1, c)>> ELSE <<>>)
       /\ current_employee' # current_employee
          => /\ cpc = "loop" /\ r < Len(grid)
             /\ grid[r + 1][1].type = "str"
             /\ \E k \in 1..Len(grid[r + 1][1].chars) : grid[r + 1][1].chars[k] = ","
      ]_vars

\* Two records exist, the row just classified had a blank column A, and the
\* second record holds two ranges for column 2 while the first holds one range
\* in all.
C12_Witness ==
    /\ cpc = "loop" /\ r >= 1 /\ r <= Len(grid)
    /\ ~truthy(grid[r][1])
    /\ Len(employees) = 2 /\ current_employee = 2
    /\ Len(ListOf(employees[2], 2)) = 2
    /\ Len(ListOf(employees[1], 1)) + Len(ListOf(employees[1], 2)) = 1

\* The grid ends with the header row (Sun, Mon), its date row, one name row
\* with a valid time range under Mon and one blank-column-A row with another
\* valid time range under Mon; only title and department rows precede them.
C13_Grid ==
    /\ Len(grid) >= 4
    /\ grid[Len(grid) - 3] = HeaderRow1
    /\ grid[Len(grid) - 2] = DateRow1
    /\ grid[Len(grid) - 1][1].type = "str"
    /\ \E k \in 1..Len(grid[Len(grid) - 1][1].chars) :
          grid[Len(grid) - 1][1].chars[k] = ","
    /\ CellRange(Len(grid) - 1, 2) # None
    /\ ~truthy(grid[Len(grid)][1])
    /\ CellRange(Len(grid), 2) # None

\* C13 (as stated): classifying such a grid yields one employee with exactly
\* two TimeRanges for Mon, sorted by start, whichever row carries the earlier
\* range.
C13_SortedWhenClassified ==
    (cpc = "done" /\ C13_Grid)
        => /\ Len(employees) = 1
           /\ Len(ListOf(employees[1], 2)) = 2
           /\ start_key(ListOf(employees[1], 2)[1])
                <= start_key(ListOf(employees[1], 2)[2])

\* C13 (amended): classifying such a grid yields one employee with exactly the
\* two rows' TimeRanges for Mon, in row order; once Mon has been projected the
\* employee's two ranges are sorted by start, in the returned entry and in the
\* model, whichever row carries the earlier range.
C13_SortedWhenProjected ==
    /\ (cpc = "done" /\ C13_Grid)
          => /\ Len(employees) = 1
             /\ ListOf(employees[1], 2) =
                  <<CellRange(Len(grid) - 1, 2), CellRange(Len(grid), 2)>>
    /\ (cpc = "projected" /\ target_col = 2 /\ C13_Grid)
          => /\ Len(employees) = 1 /\ Len(schedule) = 1
             /\ Len(schedule[1].shift_segments) = 2
             /\ {schedule[1].shift_segments[1], schedule[1].shift_segments[2]} =
                  {CellRange(Len(grid) - 1, 2), CellRange(Len(grid), 2)}
             /\ start_key(schedule[1].shift_segments[1])
                  <= start_key(schedule[1].shift_segments[2])
             /\ ListOf(employees[1], 2) = schedule[1].shift_segments

\* Mon was projected from such a grid whose name row carries the later range.
C13_Witness ==
    /\ cpc = "projected" /\ target_col = 2 /\ C13_Grid
    /\ start_key(CellRange(Len(grid) - 1, 2)) > start_key(CellRange(Len(grid), 2))
    /\ Len(schedule) = 1
    /\ schedule[1].shift_segments[1] = CellRange(Len(grid), 2)

\* ------------------------------------------------- projection: claims

\* A first call of extract_day_schedule is being made.
Projecting == cpc = "done" /\ cpc' = "projected"

\* The indices of the records of the model with at least one TimeRange for
\* column c.
WithRanges(c) ==
    {i \in 1..Len(employees) :
        c \in DOMAIN employees[i].shifts_by_day
        /\ employees[i].shifts_by_day[c] # <<>>}

\* The k-th smallest element of the set of indices idx.
NthOf(idx, k) == CHOOSE i \in idx : Cardinality({j \in idx : j <= i}) = k

\* The elements of a list, as a set.
Elements(q) == {q[k] : k \in 1..Len(q)}

\* C14: extract_day_schedule returns one entry for exactly those records that
\* have at least one TimeRange for the target day column, in the same relative
\* order as in the model; an employee with zero ranges for the day never
\* appears.
C14_ExactlyThoseWithRanges ==
    [][Projecting
          => /\ Len(schedule') = Cardinality(WithRanges(target_col'))
             /\ \A k \in 1..Len(schedule') :
                  LET e == employees[NthOf(WithRanges(target_col'), k)]
                  IN  /\ schedule'[k].name = e.name
                      /\ schedule'[k].job = e.job
                      /\ Len(schedule'[k].shift_segments)
                           = Len(e.shifts_by_day[target_col'])
                      /\ Elements(schedule'[k].shift_segments)
                           = Elements(e.shifts_by_day[target_col'])]_vars

\* Of two records the first has no range for the projected day: the schedule
\* holds the second alone.
C14_Witness ==
    /\ cpc = "projected"
    /\ Len(employees) = 2
    /\ target_col \notin DOMAIN employees[1].shifts_by_day
    /\ target_col \in DOMAIN employees[2].shifts_by_day
    /\ Len(schedule) = 1
    /\ schedule[1].name = employees[2].name

\* res is orig sorted ascending by start in minutes, ties in original order.
StablySorted(orig, res) ==
    /\ Len(res) = Len(orig)
    /\ \E perm \in [1..Len(orig) -> 1..Len(orig)] :
          /\ \A i \in 1..Len(orig) : res[i] = orig[perm[i]]
          /\ \A i, j \in 1..Len(orig) :
                i < j => \/ Minutes(res[i][1]) < Minutes(res[j][1])
                         \/ /\ Minutes(res[i][1]) = Minutes(res[j][1])
                            /\ perm[i] < perm[j]

\* C15: for every employee extract_day_schedule returns, shift_segments is
\* the day's TimeRange list sorted ascending by start with ties in original
\* order, shift_start is the first sorted segment's start, shift_end the last
\* sorted segment's end, and break_text the formatted end of the first sorted
\* segment when there are two or more segments, empty otherwise.
C15_EntryFields ==
    [][Projecting
          => \A k \in 1..Len(schedule') :
                LET e == employees[NthOf(WithRanges(target_col'), k)]
                    out == schedule'[k]
                IN  /\ StablySorted(e.shifts_by_day[target_col'], out.shift_segments)
                    /\ out.shift_start = out.shift_segments[1][1]
                    /\ out.shift_end = out.shift_segments[Len(out.shift_segments)][2]
                    /\ out.break_text =
                         IF Len(out.shift_segments) >= 2
                         THEN format_time_short(out.shift_segments[1][2][1],
                                                out.shift_segments[1][2][2])
                         ELSE <<>>]_vars

\* Two ranges starting at 9:00 came out in their original order, the longer
\* one first, with the break at its end.
C15_Witness ==
    /\ cpc = "projected"
    /\ Len(schedule) >= 1
    /\ schedule[1].shift_segments =
         <<<<<<9, 0>>, <<13, 30>>>>, <<<<9, 0>>, <<11, 0>>>>>>
    /\ schedule[1].break_text = <<"1", "3", "0", "P">>
    /\ schedule[1].shift_end = <<11, 0>>

\* C16: projecting the same day column twice from the same model, unmodified
\* by the caller in between, yields two employee lists equal in order and in
\* every field.
C16_ProjectionIdempotent ==
    cpc = "projected2" => schedule2 = schedule

\* Both calls returned two entries, the first with two segments.
C16_Witness ==
    /\ cpc = "projected2"
    /\ Len(schedule) = 2 /\ Len(schedule2) = 2
    /\ Len(schedule2[1].shift_segments) = 2
    /\ schedule2[1].shift_text = schedule[1].shift_text

\* C17: extract_day_schedule leaves every EmployeeRecord of the parsed model
\* unchanged, including the order of the TimeRanges of every shifts_by_day
\* list, for the target day and for all other days.
C17_ProjectionReadOnly ==
    [][(cpc \in {"done", "projected"} /\ cpc' \in {"projected", "projected2"})
          => employees' = employees]_vars

\* ------------------------------------------------------------ generate_excel

RED == <<"#", "F", "F", "0", "0", "0", "0">>
GREEN == <<"#", "0", "0", "C", "8", "5", "3">>
BLUE == <<"#", "2", "1", "9", "6", "F", "3">>

\* str.lstrip("#")
RECURSIVE lstrip_hash(_)
lstrip_hash(s) == IF s # <<>> /\ Head(s) = "#" THEN lstrip_hash(Tail(s)) ELSE s

\* zone_colors / fill_cache: zone name -> the hex of its fill; of several
\* definitions with one name the last is kept.
fill_cache_of(zs) ==
    [n \in {zs[k].name : k \in 1..Len(zs)} |->
        lstrip_hash(zs[SetMax({k \in 1..Len(zs) : zs[k].name = n})].color)]

\* all_starts / all_ends: the values of the employees that have one.
all_starts(emps) ==
    {emps[k].shift_start : k \in {i \in 1..Len(emps) : Truthy(emps[i].shift_start)}}
all_ends(emps) ==
    {emps[k].shift_end : k \in {i \in 1..Len(emps) : Truthy(emps[i].shift_end)}}

end_hour_floor(p) == p[1]

\* h + (1 if m > 0 else 0)
end_hour_of(p) == p[1] + (IF p[2] > 0 THEN 1 ELSE 0)

\* start_hour after "Determine time range from employee shifts".
widened_start(start_hour, emps) ==
    IF emps # <<>> /\ all_starts(emps) # {}
    THEN LET earliest == SetMin({p[1] : p \in all_starts(emps)})
         IN  IF start_hour < earliest THEN start_hour ELSE earliest
    ELSE start_hour

\* end_hour after it.
widened_end(end_hour, emps) ==
    IF emps # <<>> /\ all_ends(emps) # {}
    THEN LET latest == SetMax({end_hour_of(p) : p \in all_ends(emps)})
         IN  IF end_hour > latest THEN end_hour ELSE latest
    ELSE end_hour

\* No fill set on a cell.
NoFill == <<>>

cell_fill_any(slot_zone_name, cache) ==
    IF slot_zone_name # "" THEN BLUE ELSE NoFill

\* if slot_zone and slot_zone in fill_cache: cell.fill = fill_cache[slot_zone]
cell_fill(slot_zone_name, cache) ==
    IF slot_zone_name # "" /\ slot_zone_name \in DOMAIN cache
    THEN cache[slot_zone_name] ELSE NoFill

\* One employee row of the sheet: the static cells and the fill of each time
\* slot cell.
sheet_row(e, slots, cache) ==
    [name    |-> e.name,
     shift   |-> e.shift_text,
     break   |-> e.break_text,
     focuses |-> e.zone,
     fills   |-> [i \in 1..Len(slots) |->
                    cell_fill(get_zone_for_slot(e, slots[i][1], slots[i][2]), cache)]]

\* ------------------------------------------------------------ SpecRender

\* A day's segment lists as extract_day_schedule leaves them.
RenderSegLists ==
    {<<<<<<9, 0>>, <<13, 0>>>>>>,
     <<<<<<7, 30>>, <<12, 0>>>>>>,
     <<<<<<14, 0>>, <<21, 30>>>>>>,
     <<<<<<14, 0>>, <<23, 30>>>>>>,
     <<<<<<9, 0>>, <<12, 0>>>>, <<<<13, 0>>, <<17, 0>>>>>>}

\* Projected employees, no zone assigned yet.
RenderEntries ==
    {day_entry(model_employee(1, <<>>), segments) : segments \in RenderSegLists}

\* A projected employee split at its break into an Adults and a Cashiers block.
SplitEntry ==
    LET e == day_entry(model_employee(1, <<>>),
                       <<<<<<9, 0>>, <<12, 0>>>>, <<<<13, 0>>, <<17, 0>>>>>>)
        blocks == initial_blocks(e)
    IN  apply_split_result(
            e, split_result(<<[blocks[1] EXCEPT !.zone = "Adults"],
                              [blocks[2] EXCEPT !.zone = "Cashiers"]>>))

\* A manual entry without a parseable shift.
ManualEntry ==
    [name |-> NAME3, job |-> <<>>, shift_text |-> <<>>, break_text |-> <<>>]
        @@ manual_employee_no_shift("Adults")

RosterEmployees ==
    RenderEntries
    \cup {assign_zone(e, z) : e \in RenderEntries, z \in ZoneNames}
    \cup {SplitEntry, ManualEntry}

Rosters == UNION {[1..n -> RosterEmployees] : n \in 0..MaxRoster}

\* The zone list: the two zones; Cashiers deleted; Adults defined twice.
ZoneConfigs ==
    {<<[name |-> "Adults", color |-> RED], [name |-> "Cashiers", color |-> GREEN]>>,
     <<[name |-> "Adults", color |-> RED]>>,
     <<[name |-> "Adults", color |-> RED], [name |-> "Cashiers", color |-> GREEN],
       [name |-> "Adults", color |-> BLUE]>>}

InitRender ==
    /\ ZoneIdle /\ TimeIdle /\ ParseIdle /\ ProjIdle /\ ConfigIdle /\ SplitIdle
    /\ roster \in Rosters
    /\ zones \in ZoneConfigs
    /\ axis_window = None
    /\ axis = <<>>
    /\ sheet_rows = <<>>
    /\ rpc = "start"

\* The time range is determined from the employees' shifts and the slots made.
BuildAxis ==
    /\ rpc = "start"
    /\ axis_window' = <<widened_start(BaseHour, roster),
                        widened_end(DefaultEndHour, roster)>>
    /\ axis' = generate_time_slots(widened_start(BaseHour, roster),
                                   widened_end(DefaultEndHour, roster))
    /\ rpc' = "rows"
    /\ UNCHANGED <<roster, zones, sheet_rows>>
    /\ UNCHANGED <<zoneVars, timeVars, parseVars, projVars, configVars, splitVars>>

\* One pass of the loop over the employees: the row of the next employee.
RenderRow ==
    /\ rpc = "rows" /\ Len(sheet_rows) < Len(roster)
    /\ sheet_rows' = Append(sheet_rows,
                            sheet_row(roster[Len(sheet_rows) + 1], axis,
                                      fill_cache_of(zones)))
    /\ UNCHANGED <<roster, zones, axis_window, axis, rpc>>
    /\ UNCHANGED <<zoneVars, timeVars, parseVars, projVars, configVars, splitVars>>

\* wb.save(output_path); return output_path
SaveWorkbook ==
    /\ rpc = "rows" /\ Len(sheet_rows) = Len(roster)
    /\ rpc' = "saved"
    /\ UNCHANGED <<roster, zones, axis_window, axis, sheet_rows>>
    /\ UNCHANGED <<zoneVars, timeVars, parseVars, projVars, configVars, splitVars>>

NextRender == BuildAxis \/ RenderRow \/ SaveWorkbook

SpecRender == InitRender /\ [][NextRender]_vars


\* ---------------------------------------------------- rendering: claims

\* The hours the employees' shifts start at, and the hours they end at with
\* nonzero minutes rounded up.
StartHours ==
    {roster[k].shift_start[1] :
        k \in {i \in 1..Len(roster) : roster[i].shift_start # None}}
EndHoursUp ==
    {roster[k].shift_end[1] + (IF roster[k].shift_end[2] # 0 THEN 1 ELSE 0) :
        k \in {i \in 1..Len(roster) : roster[i].shift_end # None}}

\* Half-hour point p lies in [shift_start, shift_end) of some employee.
InSomeShift(p) ==
    \E k \in 1..Len(roster) :
        /\ roster[k].shift_start # None /\ roster[k].shift_end # None
        /\ Minutes(roster[k].shift_start) <= Minutes(p)
        /\ Minutes(p) < Minutes(roster[k].shift_end)

\* C18: the rendered axis uses startHour = min(configured start, minimum
\* shift_start hour) and endHour = max(configured end, maximum shift_end hour
\* rounded up on nonzero minutes); so it never shrinks below the configured
\* window and holds every half-hour slot in [shift_start, shift_end) of every
\* employee.
C18_AxisWidening ==
    rpc \in {"rows", "saved"}
        => /\ axis_window[1] \in {BaseHour} \cup StartHours
           /\ \A h \in {BaseHour} \cup StartHours : axis_window[1] <= h
           /\ axis_window[2] \in {DefaultEndHour} \cup EndHoursUp
           /\ \A h \in {DefaultEndHour} \cup EndHoursUp : axis_window[2] >= h
           /\ \A p \in HalfHourPoints :
                (\/ /\ Minutes(<<BaseHour, 0>>) <= Minutes(p)
                    /\ Minutes(p) <= Minutes(<<DefaultEndHour, 0>>)
                 \/ InSomeShift(p))
                    => \E i \in 1..Len(axis) : axis[i] = p

\* An employee starting at 7:30 and one ending at 21:30 widened the axis to
\* 7..22.
C18_Witness ==
    /\ rpc = "saved"
    /\ <<7, 30>> \in {roster[k].shift_start : k \in 1..Len(roster)}
    /\ <<21, 30>> \in {roster[k].shift_end : k \in 1..Len(roster)}
    /\ axis_window = <<7, 22>>
    /\ axis[1] = <<7, 0>> /\ axis[Len(axis)] = <<22, 0>>

\* The names of the configured zone definitions.
DefinedNames == {zones[k].name : k \in 1..Len(zones)}

\* C19: a time-slot cell of an employee row is filled if and only if
\* _get_zone_for_slot returns a non-empty zone name that is the name of a
\* configured ZoneDefinition, and then with that zone's color; a resolved name
\* without a definition leaves the cell unfilled, and the workbook is saved
\* only with the rows of all employees written.
C19_FillIffConfigured ==
    /\ \A k \in 1..Len(sheet_rows) :
          /\ Len(sheet_rows[k].fills) = Len(axis)
          /\ \A i \in 1..Len(axis) :
                LET z == get_zone_for_slot(roster[k], axis[i][1], axis[i][2])
                IN  IF z # "" /\ z \in DefinedNames
                    THEN /\ sheet_rows[k].fills[i] # NoFill
                         /\ \E d \in 1..Len(zones) :
                              /\ zones[d].name = z
                              /\ <<"#">> \o sheet_rows[k].fills[i] = zones[d].color
                    ELSE sheet_rows[k].fills[i] = NoFill
    /\ rpc = "saved" => Len(sheet_rows) = Len(roster)

\* The workbook was saved with a row holding a cell whose resolved zone,
\* Cashiers, has no definition and is unfilled, and a row holding a filled cell.
C19_Witness ==
    /\ rpc = "saved"
    /\ "Cashiers" \notin DefinedNames
    /\ \E k \in 1..Len(sheet_rows) : \E i \in 1..Len(axis) :
          /\ get_zone_for_slot(roster[k], axis[i][1], axis[i][2]) = "Cashiers"
          /\ sheet_rows[k].fills[i] = NoFill
    /\ \E k \in 1..Len(sheet_rows) : \E i \in 1..Len(axis) :
          sheet_rows[k].fills[i] = <<"F", "F", "0", "0", "0", "0">>


\* -------------------------------------------------- reporting period: claims

\* The rows (1-based) among the scanned leading rows holding a cell that
\* matches the date-range pattern.
PeriodRows ==
    {k \in 1..(IF Len(grid) < 5 THEN Len(grid) ELSE 5) :
        \E c \in 1..Len(grid[k]) : is_period(grid[k][c])}

\* The first matching cell in row-major order: earliest row, then earliest
\* column.
FirstPeriodCell ==
    LET k == CHOOSE x \in PeriodRows : \A y \in PeriodRows : x <= y
        cols == {c \in 1..Len(grid[k]) : is_period(grid[k][c])}
    IN  grid[k][CHOOSE c \in cols : \A d \in cols : c <= d]

\* C20: when several cells of the scanned leading rows match the date-range
\* pattern, time_period is the first match in row-major scan order; later
\* matching cells never overwrite it.
C20_FirstPeriodWins ==
    (cpc \in {"loop", "done"} /\ PeriodRows # {})
        => time_period = FirstPeriodCell.chars


\* ------------------------------------------------ segment overlap: claims

\* C21: every segment list of one employee for one day produced by
\* classification and projection is pairwise non-overlapping once sorted by
\* start: of consecutive sorted segments the earlier ends at or before the
\* start of the later.
C21_SegmentsDisjoint ==
    cpc = "projected"
        => \A k \in 1..Len(schedule) :
              \A i \in 1..(Len(schedule[k].shift_segments) - 1) :
                 Minutes(schedule[k].shift_segments[i][2])
                   <= Minutes(schedule[k].shift_segments[i + 1][1])

\* ------------------------------------------------------------- SpecConfig
\* The zone list of the main window: Add Zone, Edit Zone and Delete Zone on
\* self.zones, each through ZoneDialog.  A zone name is the text of the name
\* entry, character by character, so that strip() is computed.

\* How many zone operations one run makes.
MaxZoneOps == 2

DEFAULT_ZONES ==
    <<[name |-> <<"A", "d", "u", "l", "t", "s">>,
       color |-> "#FF0000"],
      [name |-> <<"K", "i", "d", "s", "/", "F", "o", "o", "t", "w", "e", "a", "r">>,
       color |-> "#FFD700"],
      [name |-> <<"C", "a", "s", "h", "i", "e", "r", "s">>,
       color |-> "#00C853"],
      [name |-> <<"R", "e", "p", "l", "e", "n", "i", "s", "h", "m", "e", "n", "t", "/", "R", "e", "f", "i", "l", "l">>,
       color |-> "#9C27B0"],
      [name |-> <<"S", "h", "i", "p", "m", "e", "n", "t">>,
       color |-> "#2196F3"],
      [name |-> <<"O", "p", "e", "r", "a", "t", "i", "o", "n">>,
       color |-> "#FF922B"],
      [name |-> <<"F", "i", "t", "t", "i", "n", "g", " ", "R", "o", "o", "m", "s">>,
       color |-> "#FF7F50"]>>

\* The color a ZoneDialog opened without a zone starts with.
DialogDefaultColor == "#FF6B6B"

\* What colorchooser.askcolor can hand back in _pick_color.
PickedColors == {"#000000"}

\* ZoneDialog._ok: the result for the entry text and the dialog's color;
\* None when the stripped name is empty (the dialog stays open, and closing
\* it leaves the result None).
zone_dialog_ok(name_text, color) ==
    LET name == strip(name_text)
    IN  IF name = <<>> THEN None ELSE [name |-> name, color |-> color]

\* The texts the user leaves in the name entry.
TypedNames ==
    {<<>>, <<" ">>, <<"A", "d", "u", "l", "t", "s">>,
     <<" ", "C", "a", "s", "h", "i", "e", "r", "s", " ">>, <<"S", "t", "a", "f", "f">>}

InitConfig ==
    /\ self_zones = DEFAULT_ZONES
    /\ zone_ops = 0
    /\ ZoneIdle /\ TimeIdle /\ ParseIdle /\ ProjIdle /\ RenderIdle /\ SplitIdle

\* DCOCreatorApp._add_zone with a dialog that returned a result.
AddZone ==
    /\ zone_ops < MaxZoneOps
    /\ \E typed \in TypedNames, color \in {DialogDefaultColor} \cup PickedColors :
          LET res == zone_dialog_ok(typed, color)
          IN  /\ res # None
              /\ self_zones' = Append(self_zones, res)
    /\ zone_ops' = zone_ops + 1
    /\ UNCHANGED <<zoneVars, timeVars, parseVars, projVars, renderVars, splitVars>>

\* DCOCreatorApp._edit_zone on a selected row, with a dialog that returned a
\* result.
EditZone ==
    /\ zone_ops < MaxZoneOps
    /\ \E idx \in 1..Len(self_zones), typed \in TypedNames :
          \E color \in {self_zones[idx].color} \cup PickedColors :
             LET res == zone_dialog_ok(typed, color)
             IN  /\ res # None
                 /\ self_zones' = [self_zones EXCEPT ![idx] = res]
    /\ zone_ops' = zone_ops + 1
    /\ UNCHANGED <<zoneVars, timeVars, parseVars, projVars, renderVars, splitVars>>

\* DCOCreatorApp._delete_zone on a selected row, confirmed.
DeleteZone ==
    /\ zone_ops < MaxZoneOps
    /\ \E idx \in 1..Len(self_zones) :
          self_zones' = SubSeq(self_zones, 1, idx - 1)
                        \o SubSeq(self_zones, idx + 1, Len(self_zones))
    /\ zone_ops' = zone_ops + 1
    /\ UNCHANGED <<zoneVars, timeVars, parseVars, projVars, renderVars, splitVars>>

NextConfig == AddZone \/ EditZone \/ DeleteZone

SpecConfig == InitConfig /\ [][NextConfig]_vars

\* C22: after any sequence of Add Zone, Edit Zone and Delete Zone operations
\* starting from the default zone list, every zone name of the configuration
\* is non-empty and no two zones share a name.
C22_NamesUniqueNonEmpty ==
    /\ \A i \in 1..Len(self_zones) : self_zones[i].name # <<>>
    /\ \A i, j \in 1..Len(self_zones) :
          i # j => self_zones[i].name # self_zones[j].name

\* -------------------------------------------------------------- SpecSplit
\* SplitZoneDialog event by event, inside ZoneAssignmentDialog._open_split_zones:
\* the dialog is built for dlg_emp, the user works in phase 1 (splits) and
\* phase 2 (zones), and Done or Cancel closes it; _open_split_zones then
\* stores a result that is not None on the employee.

\* The days' segment lists the dialog is opened for: one segment, and two
\* segments with a break gap between them.
SplitSegLists ==
    {<< <<(<<9, 0>>), (<<10, 30>>)>> >>,
     << <<(<<9, 0>>), (<<10, 0>>)>>, <<(<<11, 0>>), (<<11, 30>>)>> >>}

\* _add_split: is split_min turned down (a block boundary, or inside no block)?
split_rejected(blocks, split_min) ==
    \/ \E i \in 1..Len(blocks) :
          \/ blocks[i].start = <<split_min \div 60, split_min % 60>>
          \/ blocks[i].end = <<split_min \div 60, split_min % 60>>
    \/ ~ \E i \in 1..Len(blocks) :
          /\ Minutes(blocks[i].start) < split_min
          /\ split_min < Minutes(blocks[i].end)

\* An _add_split that selects the first block when it turns the time down.
add_split_index_reset(blocks, split_min, idx) ==
    IF split_rejected(blocks, split_min) THEN 0
    ELSE SetMin({i \in 1..Len(blocks) :
                    /\ Minutes(blocks[i].start) < split_min
                    /\ split_min < Minutes(blocks[i].end)})

\* _add_split: current_block_index afterwards (0-based; i + 1 for the
\* 0-based position i of the block that was split).
add_split_index(blocks, split_min, idx) ==
    IF split_rejected(blocks, split_min) THEN idx
    ELSE SetMin({i \in 1..Len(blocks) :
                    /\ Minutes(blocks[i].start) < split_min
                    /\ split_min < Minutes(blocks[i].end)})

\* _remove_last_split: current_block_index afterwards.
remove_last_index(blocks, original, idx) ==
    IF Len(blocks) <= Len(original) THEN idx
    ELSE IF Len(blocks) - 2 > 0 THEN Len(blocks) - 2 ELSE 0

\* _enter_phase2: the guard, and the blocks with every zone cleared.
can_enter_phase2(blocks) == Len(blocks) >= 2
cleared_zones(blocks) == [i \in 1..Len(blocks) |-> [blocks[i] EXCEPT !.zone = ""]]

\* A _done without the check for blocks that have no zone.
all_zoned_any(blocks) == Len(blocks) >= 0

\* _open_split_zones after the dialog closed: a result that is not None is
\* stored on the employee.
after_dialog(e, result) ==
    IF result # None THEN apply_split_result(e, result) ELSE e

\* _done: every block carries a zone.
all_zoned(blocks) == \A i \in 1..Len(blocks) : blocks[i].zone # ""

DialogOpen == phase \in {"phase1", "phase2"}

InitSplit ==
    /\ \E segments \in SplitSegLists : dlg_emp = projected_employee(segments)
    /\ dlg_blocks = <<>>
    /\ dlg_original = <<>>
    /\ current_block_index = 0
    /\ phase = "closed"
    /\ dlg_result = None
    /\ ZoneIdle /\ TimeIdle /\ ParseIdle /\ ProjIdle /\ RenderIdle /\ ConfigIdle

\* SplitZoneDialog.__init__, called by _open_split_zones.
OpenDialog ==
    /\ phase = "closed"
    /\ dlg_blocks' = initial_blocks(dlg_emp)
    /\ dlg_original' = original_blocks(dlg_emp)
    /\ current_block_index' = 0
    /\ dlg_result' = None
    /\ phase' = "phase1"
    /\ UNCHANGED dlg_emp
    /\ UNCHANGED <<zoneVars, timeVars, parseVars, projVars, renderVars, configVars>>

\* _add_split with the slider at split_min.
AddSplitAt(split_min) ==
    /\ phase = "phase1"
    /\ dlg_blocks' = add_split(dlg_blocks, split_min)
    /\ current_block_index' =
           add_split_index(dlg_blocks, split_min, current_block_index)
    /\ UNCHANGED <<dlg_emp, dlg_original, phase, dlg_result>>
    /\ UNCHANGED <<zoneVars, timeVars, parseVars, projVars, renderVars, configVars>>

AddSplit == \E split_min \in slider_values(dlg_emp) : AddSplitAt(split_min)

\* _remove_last_split
RemoveLastSplit ==
    /\ phase = "phase1"
    /\ dlg_blocks' = remove_last_split(dlg_blocks, dlg_original)
    /\ current_block_index' =
           remove_last_index(dlg_blocks, dlg_original, current_block_index)
    /\ UNCHANGED <<dlg_emp, dlg_original, phase, dlg_result>>
    /\ UNCHANGED <<zoneVars, timeVars, parseVars, projVars, renderVars, configVars>>

\* _remove_all_splits
RemoveAllSplits ==
    /\ phase = "phase1"
    /\ dlg_blocks' = remove_all_splits(dlg_original)
    /\ current_block_index' = 0
    /\ UNCHANGED <<dlg_emp, dlg_original, phase, dlg_result>>
    /\ UNCHANGED <<zoneVars, timeVars, parseVars, projVars, renderVars, configVars>>

\* _enter_phase2 ("Set Zones"); with fewer than two blocks it only shows a
\* message.
EnterPhase2 ==
    /\ phase = "phase1"
    /\ can_enter_phase2(dlg_blocks)
    /\ dlg_blocks' = cleared_zones(dlg_blocks)
    /\ current_block_index' = 0
    /\ phase' = "phase2"
    /\ UNCHANGED <<dlg_emp, dlg_original, dlg_result>>
    /\ UNCHANGED <<zoneVars, timeVars, parseVars, projVars, renderVars, configVars>>

\* _back_to_phase1
BackToPhase1 ==
    /\ phase = "phase2"
    /\ phase' = "phase1"
    /\ UNCHANGED <<dlg_emp, dlg_blocks, dlg_original, current_block_index,
                   dlg_result>>
    /\ UNCHANGED <<zoneVars, timeVars, parseVars, projVars, renderVars, configVars>>

\* SplitZoneDialog._assign_zone: a zone button in phase 2.
AssignBlockZone ==
    /\ phase = "phase2"
    /\ \E zone_name \in ZoneNames :
          dlg_blocks' = [dlg_blocks EXCEPT
                            ![current_block_index + 1].zone = zone_name]
    /\ current_block_index' =
           IF current_block_index < Len(dlg_blocks) - 1
           THEN current_block_index + 1 ELSE current_block_index
    /\ UNCHANGED <<dlg_emp, dlg_original, phase, dlg_result>>
    /\ UNCHANGED <<zoneVars, timeVars, parseVars, projVars, renderVars, configVars>>

\* _done with every block zoned, and _open_split_zones storing the result
\* on the employee; with a block without a zone _done only shows a warning.
Done ==
    /\ phase = "phase2"
    /\ all_zoned(dlg_blocks)
    /\ dlg_result' = split_result(dlg_blocks)
    /\ dlg_emp' = after_dialog(dlg_emp, split_result(dlg_blocks))
    /\ phase' = "closed"
    /\ UNCHANGED <<dlg_blocks, dlg_original, current_block_index>>
    /\ UNCHANGED <<zoneVars, timeVars, parseVars, projVars, renderVars, configVars>>

\* _cancel (Cancel button, Escape, window close); _open_split_zones then
\* leaves the employee alone.
Cancel ==
    /\ DialogOpen
    /\ dlg_result' = None
    /\ dlg_emp' = after_dialog(dlg_emp, None)
    /\ phase' = "closed"
    /\ UNCHANGED <<dlg_blocks, dlg_original, current_block_index>>
    /\ UNCHANGED <<zoneVars, timeVars, parseVars, projVars, renderVars, configVars>>

NextSplit ==
    \/ OpenDialog \/ AddSplit \/ RemoveLastSplit \/ RemoveAllSplits
    \/ EnterPhase2 \/ BackToPhase1 \/ AssignBlockZone \/ Done \/ Cancel

SpecSplit == InitSplit /\ [][NextSplit]_vars

\* ------------------------------------------------ split dialog: claims

\* The slider time is a start or an end of some block.
OnBoundary(split_min) ==
    \E i \in 1..Len(dlg_blocks) :
       \/ Minutes(dlg_blocks[i].start) = split_min
       \/ Minutes(dlg_blocks[i].end) = split_min

\* The slider time lies strictly inside no block.
InNoBlock(split_min) ==
    \A i \in 1..Len(dlg_blocks) :
       \/ split_min <= Minutes(dlg_blocks[i].start)
       \/ Minutes(dlg_blocks[i].end) <= split_min

\* C23: an Add Split at a time that is already a start or end of some block,
\* or at a time that lies strictly inside no block (a break gap), leaves the
\* block list and current_block_index exactly as they were.
C23_RejectedSplitKeepsState ==
    [][\A split_min \in slider_values(dlg_emp) :
          (AddSplitAt(split_min) /\ (OnBoundary(split_min) \/ InNoBlock(split_min)))
              => /\ dlg_blocks' = dlg_blocks
                 /\ current_block_index' = current_block_index]_vars

\* A split was added (the second block is selected) and the slider can stand
\* both on a boundary and inside the break gap.
C23_Witness ==
    /\ phase = "phase1"
    /\ current_block_index > 0
    /\ Len(dlg_blocks) > Len(dlg_original)
    /\ \E split_min \in slider_values(dlg_emp) : OnBoundary(split_min)
    /\ \E split_min \in slider_values(dlg_emp) :
          InNoBlock(split_min) /\ ~OnBoundary(split_min)

\* C24: after any sequence of Add Split, Remove Last Split and Remove All
\* Splits the block list is ordered by start, every block has start < end,
\* consecutive blocks do not overlap, the first block starts at the
\* employee's overall shift start and the last block ends at the overall
\* shift end.
C24_BlockShape ==
    DialogOpen =>
        /\ dlg_blocks # <<>>
        /\ \A i \in 1..Len(dlg_blocks) :
              Minutes(dlg_blocks[i].start) < Minutes(dlg_blocks[i].end)
        /\ \A i \in 1..(Len(dlg_blocks) - 1) :
              /\ Minutes(dlg_blocks[i].start) <= Minutes(dlg_blocks[i + 1].start)
              /\ Minutes(dlg_blocks[i].end) <= Minutes(dlg_blocks[i + 1].start)
        /\ dlg_blocks[1].start = dlg_emp.shift_start
        /\ Last(dlg_blocks).end = dlg_emp.shift_end

\* A split was added and the last block was removed again: as many blocks
\* as at the start, with a different boundary.
C24_Witness ==
    /\ phase = "phase1"
    /\ Len(dlg_blocks) = Len(dlg_original)
    /\ \E i \in 1..Len(dlg_blocks) : dlg_blocks[i].end # dlg_original[i].end

\* C27: for an employee with two or more shift segments separated by break
\* gaps, after any sequence of Add Split, Remove Last Split and Remove All
\* Splits every block lies entirely within one of the employee's original
\* shift segments.
C27_BlocksWithinSegments ==
    (DialogOpen /\ Len(dlg_emp.shift_segments) >= 2) =>
        \A i \in 1..Len(dlg_blocks) :
           \E k \in 1..Len(dlg_emp.shift_segments) :
              /\ Minutes(dlg_emp.shift_segments[k][1]) <= Minutes(dlg_blocks[i].start)
              /\ Minutes(dlg_blocks[i].end) <= Minutes(dlg_emp.shift_segments[k][2])

\* C28: over every sequence of dialog events the result is either None or a
\* list of at least two segments each carrying a non-empty zone; on cancel
\* the result is None and the employee's zone and zone_segments are
\* unchanged.
C28_ResultIntegrity ==
    [][/\ \/ dlg_result' = None
          \/ /\ Len(dlg_result') >= 2
             /\ \A i \in 1..Len(dlg_result') : dlg_result'[i].zone # ""
       /\ Cancel => /\ dlg_result' = None
                    /\ dlg_emp'.zone = dlg_emp.zone
                    /\ dlg_emp'.zone_segments = dlg_emp.zone_segments]_vars

\* A dialog was completed for the employee, and a later one was cancelled.
C28_Witness ==
    /\ phase = "closed"
    /\ dlg_result = None
    /\ dlg_emp.zone_segments # <<>>
    /\ dlg_blocks # initial_blocks(dlg_emp)

\* ------------------------------------------------- rendered axis: claims

\* C25: every slot on the axis rendered by generate_excel is a valid
\* TimePoint (hour in 0..23, minute 0 or 30), for every employee list whose
\* shift_start and shift_end are themselves valid half-hour TimePoints.
C25_AxisSlotsValid ==
    (/\ rpc \in {"rows", "saved"}
     /\ \A k \in 1..Len(roster) :
           /\ roster[k].shift_start \in HalfHourPoints
           /\ roster[k].shift_end \in HalfHourPoints)
        => \A i \in 1..Len(axis) :
              /\ axis[i][1] \in 0..23
              /\ axis[i][2] \in {0, 30}

\* ------------------------------------------------- zone modes: claims

\* C26: assigning a single zone to an employee or clearing the employee's
\* zone always leaves that employee's zone_segments empty, so that every slot
\* of the overall shift range resolves to the employee's single zone
\* afterwards (and every other slot to no zone), also for an employee that
\* was split before; only a completed Split Zones dialog makes zone_segments
\* non-empty.
C26_ModeExclusive ==
    [][/\ (AssignZone \/ ClearZone)
             => /\ emp'.zone_segments = <<>>
                /\ \A s \in AxisPoints :
                      get_zone_for_slot(emp', s[1], s[2])
                        = IF /\ emp'.shift_start # None
                             /\ emp'.shift_end # None
                             /\ Minutes(emp'.shift_start) <= Minutes(s)
                             /\ Minutes(s) < Minutes(emp'.shift_end)
                          THEN emp'.zone ELSE ""
       /\ (emp.zone_segments = <<>> /\ emp'.zone_segments # <<>>)
             => OpenSplitZones]_vars

\* An employee with a break carries a single zone and no zone segments, and
\* a slot was resolved to that zone.
C26_Witness ==
    /\ slot # None
    /\ Len(emp.shift_segments) = 2
    /\ emp.zone \in ZoneNames
    /\ emp.zone_segments = <<>>
    /\ slot_zone = emp.zone

\* ------------------------------------------------- parsed model: claims

\* C29: after parse_adp_report finishes on any grid (including grids with
\* several header rows), every day-column key that occurs in some employee's
\* shifts_by_day is a key of the returned days map.
C29_DaysCoverShifts ==
    cpc = "done"
        => \A k \in 1..Len(employees) :
              DOMAIN employees[k].shifts_by_day \subseteq DOMAIN days

\* The branches of the loop body that apply to the current row.
RowBranches ==
    {b \in {"department", "header", "employee", "continuation", "other"} :
        CASE b = "department" -> is_department_row(CurrentA)
          [] b = "header" -> ~is_department_row(CurrentA) /\ is_header_row(CurrentA)
          [] b = "employee" ->
                /\ ~is_department_row(CurrentA) /\ ~is_header_row(CurrentA)
                /\ is_employee_row(CurrentA)
          [] b = "continuation" ->
                /\ ~is_department_row(CurrentA) /\ ~is_header_row(CurrentA)
                /\ ~is_employee_row(CurrentA)
                /\ is_continuation_row(current_employee, CurrentA)
          [] b = "other" ->
                /\ ~is_department_row(CurrentA) /\ ~is_header_row(CurrentA)
                /\ ~is_employee_row(CurrentA)
                /\ ~is_continuation_row(current_employee, CurrentA)}

\* C30: the row classifier terminates on every finite grid: every row the
\* loop stands on is classified by exactly one branch, the row index
\* strictly increases (by one or two) on every loop iteration of
\* parse_adp_report and never passes the number of rows, so each row is
\* classified at most once and there are at most as many iterations as rows,
\* and the scan ends.
C30_ClassifierTerminates ==
    /\ [](AtRow => Cardinality(RowBranches) = 1)
    /\ [](cpc = "loop" => r <= Len(grid))
    /\ [][(cpc = "loop" /\ cpc' = "loop")
             => /\ r < Len(grid)
                /\ r' \in {r + 1, r + 2}
                /\ r' <= Len(grid)]_vars
    /\ <>(cpc = "done")

\* The scan ended at the last row of a grid with a header (two rows in one
\* iteration) and employee rows (one row each).
C30_Witness ==
    /\ cpc = "done"
    /\ r = Len(grid)
    /\ Len(grid) >= 4
    /\ day_columns # <<>>
    /\ employees # <<>>

====
